---- MODULE Spec2Model ----
(***************************************************************************)
(* WibeSocket: the connection engine (wibesocket.c), the incremental frame *)
(* parser and the frame builder (parser.c), and the UTF-8 validator        *)
(* (utf8.c), as a state machine over one connection and its socket.        *)
(*                                                                         *)
(* C arrays are 0-based, TLA+ sequences 1-based: C's a[i] is a[i + 1]      *)
(* here, and a pointer into the recv buffer is its 0-based offset.         *)
(***************************************************************************)
EXTENDS Integers, Sequences, FiniteSets, TLC

(***************************************************************************)
(* Bounds of the model.                                                    *)
(***************************************************************************)
\* how many bytes the peer puts on the wire in one run
MaxPeerBytes == 6
\* how many socket events the response loop of one handshake meets
MaxHsReads == 2
\* how many extra references retain_payload may take on one pin
MaxRetain == 1
\* cfg.max_frame_size chosen by the caller at connect
MaxFrameSize == 2

(***************************************************************************)
(* Enumerations of the public header and of frame.h.                       *)
(***************************************************************************)
WS_OPCODE_CONTINUATION == 0
WS_OPCODE_TEXT == 1
WS_OPCODE_BINARY == 2
WS_OPCODE_CLOSE == 8
WS_OPCODE_PING == 9
WS_OPCODE_PONG == 10

WS_PARSER_OK == 0
WS_PARSER_NEED_MORE == 1
WS_PARSER_FRAME == 2
WS_PARSER_ERROR_PROTOCOL == -1
WS_PARSER_ERROR_TOO_LARGE == -2

WIBESOCKET_CLOSE_NORMAL == 1000

\* the NULL pointer (every real pointer is an offset >= 0)
NULL == 0 - 1

\* the NULL pointer where a byte string is expected (mask key, close reason)
NullBytes == <<NULL>>

\* the client's recv buffer has this many bytes more than max_frame_size
RecvSlack == 16

\* size of ws_parser_t.hdr_bytes
HdrMax == 14

\* lengths at or above this behave alike in every comparison the parser
\* makes (max_frame_size is a uint32_t); 64-bit lengths saturate here
LenSat == 1024 * 1024 * 1024

\* wibesocket_state_t
States == {"INIT", "CONNECTING", "OPEN", "CLOSING", "CLOSED", "ERROR"}

\* wibesocket_error_t
Errors == {"OK", "INVALID_ARGS", "MEMORY", "NETWORK", "HANDSHAKE", "PROTOCOL",
           "TIMEOUT", "CLOSED", "BUFFER_FULL", "NOT_READY"}

(***************************************************************************)
(* Byte arithmetic.                                                        *)
(***************************************************************************)
Min(a, b) == IF a < b THEN a ELSE b

\* (b & mask) != 0 for a one-bit mask
BitSet(b, mask) == (b \div mask) % 2 = 1

RECURSIVE XorBits(_, _, _)
XorBits(a, b, n) ==
    IF n = 0 THEN 0
    ELSE (((a % 2) + (b % 2)) % 2) + 2 * XorBits(a \div 2, b \div 2, n - 1)

\* a ^ b on uint8_t
Xor8(a, b) == XorBits(a, b, 8)

\* data[off .. off+len) of a byte sequence
Slice(data, off, len) == SubSeq(data, off + 1, off + len)

(***************************************************************************)
(* utf8.c: ws_utf8_is_valid, scanning from index i (0-based).              *)
(***************************************************************************)
\* the scan without the refusal of the surrogates U+D800..U+DFFF: C30 fails
\* on it
RECURSIVE utf8_scan_with_surrogates(_, _)
utf8_scan_with_surrogates(s, i) ==
    IF i >= Len(s) THEN TRUE
    ELSE
    LET c == s[i + 1]
        j == i + 1
        cont(k) == (s[k + 1] \div 64) = 2
    IN  IF c < 128 THEN utf8_scan_with_surrogates(s, j)
        ELSE IF (c \div 32) = 6 THEN
            IF j >= Len(s) THEN FALSE
            ELSE IF ~cont(j) THEN FALSE
            ELSE IF ((c % 32) * 64 + (s[j + 1] % 64)) < 128 THEN FALSE
            ELSE utf8_scan_with_surrogates(s, j + 1)
        ELSE IF (c \div 16) = 14 THEN
            IF j + 1 >= Len(s) THEN FALSE
            ELSE IF ~cont(j) \/ ~cont(j + 1) THEN FALSE
            ELSE LET cp == (c % 16) * 4096 + (s[j + 1] % 64) * 64 + (s[j + 2] % 64)
                 IN  IF cp < 2048 THEN FALSE
                     ELSE utf8_scan_with_surrogates(s, j + 2)
        ELSE IF (c \div 8) = 30 THEN
            IF j + 2 >= Len(s) THEN FALSE
            ELSE IF ~cont(j) \/ ~cont(j + 1) \/ ~cont(j + 2) THEN FALSE
            ELSE LET cp == (c % 8) * 262144 + (s[j + 1] % 64) * 4096
                           + (s[j + 2] % 64) * 64 + (s[j + 3] % 64)
                 IN  IF cp < 65536 THEN FALSE
                     ELSE IF cp > 1114111 THEN FALSE
                     ELSE utf8_scan_with_surrogates(s, j + 3)
        ELSE FALSE

RECURSIVE utf8_scan(_, _)
utf8_scan(s, i) ==
    IF i >= Len(s) THEN TRUE
    ELSE
    LET c == s[i + 1]
        j == i + 1
        cont(k) == (s[k + 1] \div 64) = 2
    IN  IF c < 128 THEN utf8_scan(s, j)
        ELSE IF (c \div 32) = 6 THEN
            IF j >= Len(s) THEN FALSE
            ELSE IF ~cont(j) THEN FALSE
            ELSE IF ((c % 32) * 64 + (s[j + 1] % 64)) < 128 THEN FALSE
            ELSE utf8_scan(s, j + 1)
        ELSE IF (c \div 16) = 14 THEN
            IF j + 1 >= Len(s) THEN FALSE
            ELSE IF ~cont(j) \/ ~cont(j + 1) THEN FALSE
            ELSE LET cp == (c % 16) * 4096 + (s[j + 1] % 64) * 64 + (s[j + 2] % 64)
                 IN  IF cp < 2048 THEN FALSE
                     ELSE IF cp >= 55296 /\ cp <= 57343 THEN FALSE
                     ELSE utf8_scan(s, j + 2)
        ELSE IF (c \div 8) = 30 THEN
            IF j + 2 >= Len(s) THEN FALSE
            ELSE IF ~cont(j) \/ ~cont(j + 1) \/ ~cont(j + 2) THEN FALSE
            ELSE LET cp == (c % 8) * 262144 + (s[j + 1] % 64) * 4096
                           + (s[j + 2] % 64) * 64 + (s[j + 3] % 64)
                 IN  IF cp < 65536 THEN FALSE
                     ELSE IF cp > 1114111 THEN FALSE
                     ELSE utf8_scan(s, j + 3)
        ELSE FALSE

ws_utf8_is_valid(s) == utf8_scan(s, 0)

(***************************************************************************)
(* parser.c: the incremental frame parser.                                 *)
(***************************************************************************)
ws_is_valid_close_code(code) ==
    code \in {1000, 1001, 1002, 1003, 1007, 1008, 1009, 1010, 1011}

ws_parser_init(max_frame_size) ==
    [ max_frame_size        |-> IF max_frame_size # 0 THEN max_frame_size ELSE 1048576,
      hdr_bytes             |-> [i \in 1..HdrMax |-> 0],
      hdr_need              |-> 2,
      hdr_have              |-> 0,
      cur                   |-> [fin |-> FALSE, rsv |-> 0, opcode |-> 0, masked |-> FALSE,
                                 payload_len |-> 0, mask_key |-> <<0, 0, 0, 0>>],
      payload_read          |-> 0,
      in_fragmented_message |-> FALSE,
      first_fragment_opcode |-> 0,
      out_payload           |-> NULL,
      out_payload_len       |-> 0 ]

\* big-endian value of h[from .. from+n), saturating at LenSat
RECURSIVE be_value(_, _, _, _)
be_value(h, from, n, acc) ==
    IF n = 0 THEN acc
    ELSE be_value(h, from + 1, n - 1,
                  IF acc >= LenSat \div 256 THEN LenSat
                  ELSE acc * 256 + h[from + 1])

\* ws_parse_header without the check of the opcodes 0xB-0xF: C23 fails on it
ws_parse_header_any_opcode(p) ==
    IF p.hdr_have < p.hdr_need THEN [rc |-> 0, p |-> p]
    ELSE
    LET h      == p.hdr_bytes
        b0     == h[1]
        b1     == h[2]
        fin    == BitSet(b0, 128)
        rsv    == (b0 \div 16) % 8
        opcode == b0 % 16
        masked == BitSet(b1, 128)
        plen7  == b1 % 128
        p1     == [p EXCEPT !.cur.fin = fin, !.cur.rsv = rsv,
                            !.cur.opcode = opcode, !.cur.masked = masked]
        need1  == IF plen7 <= 125 THEN 2 ELSE IF plen7 = 126 THEN 4 ELSE 10
        plen   == IF plen7 <= 125 THEN plen7
                  ELSE IF plen7 = 126 THEN h[3] * 256 + h[4]
                  ELSE be_value(h, 2, 8, 0)
        p2     == [p1 EXCEPT !.cur.payload_len = plen]
        need2  == IF masked THEN need1 + 4 ELSE need1
        p3     == IF masked
                  THEN [p2 EXCEPT !.cur.mask_key = Slice(h, need1, 4)]
                  ELSE p2
        is_control == BitSet(opcode, 8)
    IN  IF rsv # 0 THEN [rc |-> WS_PARSER_ERROR_PROTOCOL, p |-> p1]
        ELSE IF opcode >= 3 /\ opcode <= 7 THEN [rc |-> WS_PARSER_ERROR_PROTOCOL, p |-> p1]
        ELSE IF plen7 > 125 /\ p.hdr_have < need1
             THEN [rc |-> 0, p |-> [p1 EXCEPT !.hdr_need = need1]]
        ELSE IF plen7 = 127 /\ BitSet(h[3], 128)
             THEN [rc |-> WS_PARSER_ERROR_PROTOCOL, p |-> p2]
        ELSE IF masked /\ p.hdr_have < need2
             THEN [rc |-> 0, p |-> [p2 EXCEPT !.hdr_need = need2]]
        ELSE IF is_control /\ ~fin THEN [rc |-> WS_PARSER_ERROR_PROTOCOL, p |-> p3]
        ELSE IF is_control /\ plen > 125 THEN [rc |-> WS_PARSER_ERROR_PROTOCOL, p |-> p3]
        ELSE IF plen > p.max_frame_size THEN [rc |-> WS_PARSER_ERROR_TOO_LARGE, p |-> p3]
        ELSE [rc |-> 1, p |-> p3]

\* ws_parse_header with the size limit checked before the control frame
\* rules: C24 fails on it
ws_parse_header_size_first(p) ==
    IF p.hdr_have < p.hdr_need THEN [rc |-> 0, p |-> p]
    ELSE
    LET h      == p.hdr_bytes
        b0     == h[1]
        b1     == h[2]
        fin    == BitSet(b0, 128)
        rsv    == (b0 \div 16) % 8
        opcode == b0 % 16
        masked == BitSet(b1, 128)
        plen7  == b1 % 128
        p1     == [p EXCEPT !.cur.fin = fin, !.cur.rsv = rsv,
                            !.cur.opcode = opcode, !.cur.masked = masked]
        need1  == IF plen7 <= 125 THEN 2 ELSE IF plen7 = 126 THEN 4 ELSE 10
        plen   == IF plen7 <= 125 THEN plen7
                  ELSE IF plen7 = 126 THEN h[3] * 256 + h[4]
                  ELSE be_value(h, 2, 8, 0)
        p2     == [p1 EXCEPT !.cur.payload_len = plen]
        need2  == IF masked THEN need1 + 4 ELSE need1
        p3     == IF masked
                  THEN [p2 EXCEPT !.cur.mask_key = Slice(h, need1, 4)]
                  ELSE p2
        is_control == BitSet(opcode, 8)
    IN  IF rsv # 0 THEN [rc |-> WS_PARSER_ERROR_PROTOCOL, p |-> p1]
        ELSE IF opcode >= 3 /\ opcode <= 7 THEN [rc |-> WS_PARSER_ERROR_PROTOCOL, p |-> p1]
        ELSE IF opcode >= 11 THEN [rc |-> WS_PARSER_ERROR_PROTOCOL, p |-> p1]
        ELSE IF plen7 > 125 /\ p.hdr_have < need1
             THEN [rc |-> 0, p |-> [p1 EXCEPT !.hdr_need = need1]]
        ELSE IF plen7 = 127 /\ BitSet(h[3], 128)
             THEN [rc |-> WS_PARSER_ERROR_PROTOCOL, p |-> p2]
        ELSE IF masked /\ p.hdr_have < need2
             THEN [rc |-> 0, p |-> [p2 EXCEPT !.hdr_need = need2]]
        ELSE IF plen > p.max_frame_size THEN [rc |-> WS_PARSER_ERROR_TOO_LARGE, p |-> p3]
        ELSE IF is_control /\ ~fin THEN [rc |-> WS_PARSER_ERROR_PROTOCOL, p |-> p3]
        ELSE IF is_control /\ plen > 125 THEN [rc |-> WS_PARSER_ERROR_PROTOCOL, p |-> p3]
        ELSE [rc |-> 1, p |-> p3]

\* ws_parse_header: rc 0 = need more, 1 = header complete, < 0 = error
ws_parse_header(p) ==
    IF p.hdr_have < p.hdr_need THEN [rc |-> 0, p |-> p]
    ELSE
    LET h      == p.hdr_bytes
        b0     == h[1]
        b1     == h[2]
        fin    == BitSet(b0, 128)
        rsv    == (b0 \div 16) % 8
        opcode == b0 % 16
        masked == BitSet(b1, 128)
        plen7  == b1 % 128
        p1     == [p EXCEPT !.cur.fin = fin, !.cur.rsv = rsv,
                            !.cur.opcode = opcode, !.cur.masked = masked]
        need1  == IF plen7 <= 125 THEN 2 ELSE IF plen7 = 126 THEN 4 ELSE 10
        plen   == IF plen7 <= 125 THEN plen7
                  ELSE IF plen7 = 126 THEN h[3] * 256 + h[4]
                  ELSE be_value(h, 2, 8, 0)
        p2     == [p1 EXCEPT !.cur.payload_len = plen]
        need2  == IF masked THEN need1 + 4 ELSE need1
        p3     == IF masked
                  THEN [p2 EXCEPT !.cur.mask_key = Slice(h, need1, 4)]
                  ELSE p2
        is_control == BitSet(opcode, 8)
    IN  IF rsv # 0 THEN [rc |-> WS_PARSER_ERROR_PROTOCOL, p |-> p1]
        ELSE IF opcode >= 3 /\ opcode <= 7 THEN [rc |-> WS_PARSER_ERROR_PROTOCOL, p |-> p1]
        ELSE IF opcode >= 11 THEN [rc |-> WS_PARSER_ERROR_PROTOCOL, p |-> p1]
        ELSE IF plen7 > 125 /\ p.hdr_have < need1
             THEN [rc |-> 0, p |-> [p1 EXCEPT !.hdr_need = need1]]
        ELSE IF plen7 = 127 /\ BitSet(h[3], 128)
             THEN [rc |-> WS_PARSER_ERROR_PROTOCOL, p |-> p2]
        ELSE IF masked /\ p.hdr_have < need2
             THEN [rc |-> 0, p |-> [p2 EXCEPT !.hdr_need = need2]]
        ELSE IF is_control /\ ~fin THEN [rc |-> WS_PARSER_ERROR_PROTOCOL, p |-> p3]
        ELSE IF is_control /\ plen > 125 THEN [rc |-> WS_PARSER_ERROR_PROTOCOL, p |-> p3]
        ELSE IF plen > p.max_frame_size THEN [rc |-> WS_PARSER_ERROR_TOO_LARGE, p |-> p3]
        ELSE [rc |-> 1, p |-> p3]

\* how many header bytes one pass of the inner while loop copies
header_take(p, data, consumed) ==
    IF p.hdr_have < p.hdr_need
    THEN Min(p.hdr_need - p.hdr_have, Len(data) - consumed)
    ELSE 0

\* the parser after that pass has copied n bytes from data[consumed ..]
header_copy(p, data, consumed, n) ==
    [p EXCEPT !.hdr_bytes = [i \in 1..HdrMax |->
                                IF i > p.hdr_have /\ i <= p.hdr_have + n
                                THEN data[consumed + (i - p.hdr_have)]
                                ELSE p.hdr_bytes[i]],
              !.hdr_have = p.hdr_have + n]

\* the header loop of ws_parser_feed: copy header bytes, parse, repeat while
\* the header asks for more and input is left. header_parsed is the part of
\* the loop body behind the ws_parse_header call, whose result is r.
RECURSIVE feed_header(_, _, _)
RECURSIVE header_parsed(_, _, _)
header_parsed(r, data, c1) ==
    IF r.rc < 0 THEN [rc |-> r.rc, p |-> r.p, consumed |-> c1]
    ELSE IF r.rc = 0 THEN
        IF c1 = Len(data) THEN [rc |-> 0, p |-> r.p, consumed |-> c1]
        ELSE feed_header(r.p, data, c1)
    ELSE [rc |-> 1, p |-> r.p, consumed |-> c1]

feed_header(p, data, consumed) ==
    header_parsed(
        ws_parse_header(header_copy(p, data, consumed, header_take(p, data, consumed))),
        data, consumed + header_take(p, data, consumed))

\* out_frame is left unwritten unless the status is WS_PARSER_FRAME
NoFrame == [type |-> NULL, payload |-> NULL, payload_len |-> 0, is_final |-> FALSE]

\* what one ws_parser_feed call leaves behind
FeedOut(st, consumed, frame, p) == [st |-> st, consumed |-> consumed, frame |-> frame, p |-> p]

\* the fragmentation tracking without the refusal of a CONTINUATION outside
\* a message: C26 fails on it
frag_err_data_only(pp) ==
    /\ ~BitSet(pp.cur.opcode, 8)
    /\ pp.cur.opcode # WS_OPCODE_CONTINUATION
    /\ pp.in_fragmented_message

\* the fragmentation tracking refuses the frame
frag_err(pp) ==
    /\ ~BitSet(pp.cur.opcode, 8)
    /\ IF pp.cur.opcode = WS_OPCODE_CONTINUATION
       THEN ~pp.in_fragmented_message
       ELSE pp.in_fragmented_message

\* the parser after the fragmentation tracking has accepted the frame
frag_track(pp) ==
    IF BitSet(pp.cur.opcode, 8) THEN pp
    ELSE IF pp.cur.opcode = WS_OPCODE_CONTINUATION
         THEN IF pp.cur.fin THEN [pp EXCEPT !.in_fragmented_message = FALSE] ELSE pp
    ELSE IF ~pp.cur.fin
         THEN [pp EXCEPT !.in_fragmented_message = TRUE,
                         !.first_fragment_opcode = pp.cur.opcode]
         ELSE pp

\* the UTF-8 check of a text payload view fails
text_err(pf, f, data) ==
    /\ \/ pf.cur.opcode = WS_OPCODE_TEXT
       \/ /\ pf.cur.opcode = WS_OPCODE_CONTINUATION
          /\ pf.first_fragment_opcode = WS_OPCODE_TEXT
    /\ f.payload_len > 0
    /\ ~ws_utf8_is_valid(Slice(data, f.payload, f.payload_len))

\* the checks of a CLOSE payload fail. b[0], b[1] and the reason are read
\* through f.payload whatever f.payload_len is. When fewer than two payload
\* bytes were taken in this call, b[1] may lie past the fed bytes and
\* rlen = payload_len - 2 wraps around (size_t): those reads run outside the
\* input, and their verdict is oob.
close_err(pf, f, data, oob) ==
    /\ pf.cur.opcode = WS_OPCODE_CLOSE
    /\ IF pf.cur.payload_len = 1 THEN TRUE
       ELSE IF pf.cur.payload_len = 0 THEN FALSE
       ELSE IF f.payload + 2 > Len(data) THEN ~oob
       ELSE IF ~ws_is_valid_close_code(data[f.payload + 1] * 256 + data[f.payload + 2])
            THEN TRUE
       ELSE IF f.payload_len < 2 THEN ~oob
       ELSE /\ f.payload_len > 2
            /\ ~ws_utf8_is_valid(Slice(data, f.payload + 2, f.payload_len - 2))

\* ws_parser_feed from the content checks on; pf is the parser after the
\* fragmentation tracking, f the frame under construction
feed_checks(pf, f, data, consumed, oob) ==
    IF text_err(pf, f, data) \/ close_err(pf, f, data, oob)
    THEN FeedOut(WS_PARSER_ERROR_PROTOCOL, consumed, NoFrame, pf)
    ELSE FeedOut(WS_PARSER_FRAME, consumed, f,
                 [pf EXCEPT !.hdr_need = 2, !.hdr_have = 0, !.payload_read = 0])

\* ws_parser_feed once the payload bytes of this chunk are taken; pp is the
\* parser with payload_read and the payload view updated
feed_frame(pp, data, payload_start, take, oob) ==
    IF pp.payload_read < pp.cur.payload_len
    THEN FeedOut(WS_PARSER_NEED_MORE, payload_start + take, NoFrame, pp)
    ELSE IF frag_err(pp)
    THEN FeedOut(WS_PARSER_ERROR_PROTOCOL, payload_start + take, NoFrame, pp)
    ELSE feed_checks(frag_track(pp),
                     [type |-> pp.cur.opcode, payload |-> payload_start,
                      payload_len |-> take, is_final |-> pp.cur.fin],
                     data, payload_start + take, oob)

\* ws_parser_feed behind the header loop, whose result is hd
feed_payload(hd, data, oob) ==
    IF hd.rc < 0 THEN FeedOut(hd.rc, hd.consumed, NoFrame, hd.p)
    ELSE IF hd.rc = 0 THEN FeedOut(WS_PARSER_NEED_MORE, hd.consumed, NoFrame, hd.p)
    ELSE
    LET take == Min(hd.p.cur.payload_len - hd.p.payload_read, Len(data) - hd.consumed)
    IN  feed_frame([hd.p EXCEPT !.payload_read = hd.p.payload_read + take,
                                !.out_payload = hd.consumed,
                                !.out_payload_len = take],
                   data, hd.consumed, take, oob)

\* ws_parser_feed(p, data, len, &consumed, &out_frame); oob is the verdict of
\* the close-payload checks when they read outside data (TRUE = they pass)
ws_parser_feed(p0, data, oob) ==
    feed_payload(feed_header([p0 EXCEPT !.out_payload = NULL, !.out_payload_len = 0], data, 0),
                 data, oob)

\* n as `count` big-endian bytes
RECURSIVE be_bytes(_, _)
be_bytes(n, count) ==
    IF count = 0 THEN <<>>
    ELSE Append(be_bytes(n \div 256, count - 1), n % 256)

\* ws_build_frame(out, out_cap, fin, opcode, mask_key, payload, payload_len):
\* the bytes written to out, <<>> for the return value 0. mask_key is NULL
\* (NullBytes) or four bytes.
ws_build_frame(out_cap, fin, opcode, mask_key, payload) ==
    LET payload_len == Len(payload)
        ext  == IF payload_len <= 125 THEN 0 ELSE IF payload_len <= 65535 THEN 2 ELSE 8
        need == 2 + ext + (IF mask_key # NullBytes THEN 4 ELSE 0) + payload_len
        out0 == (IF fin THEN 128 ELSE 0) + (opcode % 16)
        len7 == IF payload_len <= 125 THEN payload_len
                ELSE IF payload_len <= 65535 THEN 126 ELSE 127
        out1 == len7 + (IF mask_key # NullBytes THEN 128 ELSE 0)
        body == IF mask_key # NullBytes
                THEN [i \in 1..payload_len |-> Xor8(payload[i], mask_key[((i - 1) % 4) + 1])]
                ELSE payload
    IN  IF need > out_cap THEN <<>>
        ELSE <<out0, out1>> \o be_bytes(payload_len, ext)
             \o (IF mask_key # NullBytes THEN mask_key ELSE <<>>) \o body

\* a & b on n-bit values
RECURSIVE AndBits(_, _, _)
AndBits(a, b, n) ==
    IF n = 0 THEN 0
    ELSE ((a % 2) * (b % 2)) + 2 * AndBits(a \div 2, b \div 2, n - 1)

(***************************************************************************)
(* sha1.c. A uint32_t is the pair <<high 16 bits, low 16 bits>>.           *)
(***************************************************************************)
Xor32(x, y) == <<XorBits(x[1], y[1], 16), XorBits(x[2], y[2], 16)>>

And32(x, y) == <<AndBits(x[1], y[1], 16), AndBits(x[2], y[2], 16)>>

\* x | y = x + y - (x & y), half by half
Or32(x, y) ==
    <<x[1] + y[1] - AndBits(x[1], y[1], 16), x[2] + y[2] - AndBits(x[2], y[2], 16)>>

Not32(x) == <<65535 - x[1], 65535 - x[2]>>

\* x + y on uint32_t
Add32(x, y) ==
    <<(x[1] + y[1] + ((x[2] + y[2]) \div 65536)) % 65536, (x[2] + y[2]) % 65536>>

\* ROTL32(x, n) for 0 < n < 32
ROTL32(x, n) ==
    IF n < 16
    THEN <<(x[1] * (2 ^ n) + (x[2] \div (2 ^ (16 - n)))) % 65536,
           (x[2] * (2 ^ n) + (x[1] \div (2 ^ (16 - n)))) % 65536>>
    ELSE <<(x[2] * (2 ^ (n - 16)) + (x[1] \div (2 ^ (32 - n)))) % 65536,
           (x[1] * (2 ^ (n - 16)) + (x[2] \div (2 ^ (32 - n)))) % 65536>>

\* the message schedule: w[0..15] from the block, then w[i] up to w[79]
RECURSIVE sha1_schedule(_)
sha1_schedule(w) ==
    IF Len(w) >= 80 THEN w
    ELSE sha1_schedule(Append(w, ROTL32(Xor32(Xor32(w[Len(w) - 2], w[Len(w) - 7]),
                                              Xor32(w[Len(w) - 13], w[Len(w) - 15])), 1)))

sha1_f(i, b, c, d) ==
    IF i < 20 THEN Or32(And32(b, c), And32(Not32(b), d))
    ELSE IF i < 40 THEN Xor32(Xor32(b, c), d)
    ELSE IF i < 60 THEN Or32(Or32(And32(b, c), And32(b, d)), And32(c, d))
    ELSE Xor32(Xor32(b, c), d)

sha1_k(i) ==
    IF i < 20 THEN <<23170, 31129>>        \* 0x5A827999
    ELSE IF i < 40 THEN <<28377, 60321>>   \* 0x6ED9EBA1
    ELSE IF i < 60 THEN <<36635, 48348>>   \* 0x8F1BBCDC
    ELSE <<51810, 49622>>                  \* 0xCA62C1D6

\* one round: the variables <<a, b, c, d, e>> after round i, from v before it
sha1_round(i, v, w) ==
    << Add32(Add32(Add32(Add32(ROTL32(v[1], 5), sha1_f(i, v[2], v[3], v[4])), v[5]),
                   sha1_k(i)), w[i + 1]),
       v[1], ROTL32(v[2], 30), v[3], v[4] >>

\* the 80 rounds; vs holds the round variables before round 0, 1, ...
RECURSIVE sha1_rounds(_, _)
sha1_rounds(vs, w) ==
    IF Len(vs) > 80 THEN vs[81]
    ELSE sha1_rounds(Append(vs, sha1_round(Len(vs) - 1, vs[Len(vs)], w)), w)

\* state[i] += the round variables
sha1_add(state, v) == [i \in 1..5 |-> Add32(state[i], v[i])]

\* ws_sha1_transform(state, block)
ws_sha1_transform(state, block) ==
    sha1_add(state,
             sha1_rounds(<<state>>,
                         sha1_schedule([i \in 1..16 |->
                             << block[4 * i - 3] * 256 + block[4 * i - 2],
                                block[4 * i - 1] * 256 + block[4 * i] >>])))

\* ws_sha1_init; count is kept in bytes, buffer holds the bytes of the
\* block not yet transformed (the first (count >> 3) & 63 bytes of
\* ctx->buffer)
ws_sha1_init ==
    [state  |-> << <<26437, 8961>>, <<61389, 43913>>, <<39098, 56574>>,
                   <<4146, 21622>>, <<50130, 57840>> >>,
     count  |-> 0,
     buffer |-> <<>>]

\* ws_sha1_update(ctx, data, len)
RECURSIVE sha1_blocks(_, _)
sha1_blocks(state, bytes) ==
    IF Len(bytes) < 64 THEN [state |-> state, rest |-> bytes]
    ELSE sha1_blocks(ws_sha1_transform(state, SubSeq(bytes, 1, 64)),
                     SubSeq(bytes, 65, Len(bytes)))

sha1_updated(ctx, data, b) ==
    [state |-> b.state, count |-> ctx.count + Len(data), buffer |-> b.rest]

ws_sha1_update(ctx, data) ==
    sha1_updated(ctx, data, sha1_blocks(ctx.state, ctx.buffer \o data))

\* the zero bytes ws_sha1_final feeds until 56 bytes of the block are filled
RECURSIVE sha1_pad(_)
sha1_pad(ctx) ==
    IF ctx.count % 64 = 56 THEN ctx ELSE sha1_pad(ws_sha1_update(ctx, <<0>>))

\* the digest bytes of the state words, big-endian
sha1_digest(state) ==
    [i \in 1..20 |->
        LET h == state[((i - 1) \div 4) + 1][(((i - 1) % 4) \div 2) + 1]
        IN  IF i % 2 = 1 THEN h \div 256 ELSE h % 256]

\* ws_sha1_final(ctx, out_digest): len_be is the bit count before padding
ws_sha1_final(ctx) ==
    sha1_digest(ws_sha1_update(sha1_pad(ws_sha1_update(ctx, <<128>>)),
                               be_bytes(ctx.count * 8, 8)).state)

(***************************************************************************)
(* base64.c. Characters are their ASCII codes.                             *)
(***************************************************************************)
k_b64 ==
    <<65, 66, 67, 68, 69, 70, 71, 72, 73, 74, 75, 76, 77, 78, 79, 80, 81, 82, 83, 84, 85,
      86, 87, 88, 89, 90, 97, 98, 99, 100, 101, 102, 103, 104, 105, 106, 107, 108, 109,
      110, 111, 112, 113, 114, 115, 116, 117, 118, 119, 120, 121, 122, 48, 49, 50, 51, 52,
      53, 54, 55, 56, 57, 43, 47>>

\* the four characters of the three bytes a, b, c (v = a << 16 | b << 8 | c)
b64_quad(a, b, c) ==
    << k_b64[(a \div 4) + 1],
       k_b64[((a % 4) * 16 + (b \div 16)) + 1],
       k_b64[((b % 16) * 4 + (c \div 64)) + 1],
       k_b64[(c % 64) + 1] >>

\* ws_base64_encode(in, in_len, out, 1): the characters written before the NUL
RECURSIVE ws_base64_encode(_)
ws_base64_encode(in) ==
    IF Len(in) >= 3
    THEN b64_quad(in[1], in[2], in[3]) \o ws_base64_encode(SubSeq(in, 4, Len(in)))
    ELSE IF Len(in) = 1
    THEN SubSeq(b64_quad(in[1], 0, 0), 1, 2) \o <<61, 61>>
    ELSE IF Len(in) = 2
    THEN SubSeq(b64_quad(in[1], in[2], 0), 1, 3) \o <<61>>
    ELSE <<>>

(***************************************************************************)
(* C strings. A string is the sequence of its characters' codes, without   *)
(* the terminating NUL; a char pointer into it is a 0-based offset.        *)
(***************************************************************************)
\* the string a char buffer holds: the characters before the first NUL
CStr(buf) ==
    IF \E i \in 1..Len(buf) : buf[i] = 0
    THEN SubSeq(buf, 1, (CHOOSE i \in 1..Len(buf) :
                            buf[i] = 0 /\ \A j \in 1..(i - 1) : buf[j] # 0) - 1)
    ELSE buf

\* the least offset of a nonempty set of offsets
First(offsets) == CHOOSE i \in offsets : \A j \in offsets : i <= j

\* strstr(s + from, needle): the offset of the first occurrence, NULL if none
strstr(s, from, needle) ==
    IF \E i \in from..(Len(s) - Len(needle)) : Slice(s, i, Len(needle)) = needle
    THEN First({i \in from..(Len(s) - Len(needle)) : Slice(s, i, Len(needle)) = needle})
    ELSE NULL

\* strchr(s + from, ch) for ch other than NUL
strchr(s, from, ch) == strstr(s, from, <<ch>>)

\* the character at offset i; the terminating NUL at the end of the string
CharAt(s, i) == IF i < Len(s) THEN s[i + 1] ELSE 0

\* an upper-case letter made lower-case
ToLower(a) == IF a >= 65 /\ a <= 90 THEN a + 32 ELSE a

\* snprintf's %d of a non-negative int
RECURSIVE Decimal(_)
Decimal(n) == IF n < 10 THEN <<48 + n>> ELSE Append(Decimal(n \div 10), 48 + (n % 10))

\* atoi of a string of digits: the leading digits, 0 when there are none
RECURSIVE atoi_from(_, _, _)
atoi_from(s, i, acc) ==
    IF i < Len(s) /\ s[i + 1] >= 48 /\ s[i + 1] <= 57
    THEN atoi_from(s, i + 1, acc * 10 + (s[i + 1] - 48))
    ELSE acc

atoi(s) == atoi_from(s, 0, 0)

(***************************************************************************)
(* handshake.c                                                             *)
(***************************************************************************)
\* "258EAFA5-E914-47DA-95CA-C5AB0DC85B11"
WS_GUID ==
    <<50, 53, 56, 69, 65, 70, 65, 53, 45, 69, 57, 49, 52, 45, 52, 55, 68, 65, 45, 57, 53,
      67, 65, 45, 67, 53, 65, 66, 48, 68, 67, 56, 53, 66, 49, 49>>

\* the accept value of the GUID followed by the key: C31 fails on it
ws_compute_accept_guid_first(base64_key) ==
    ws_base64_encode(ws_sha1_final(ws_sha1_update(ws_sha1_init, WS_GUID \o base64_key)))

\* ws_compute_accept(base64_key, out_accept)
ws_compute_accept(base64_key) ==
    ws_base64_encode(ws_sha1_final(ws_sha1_update(ws_sha1_init, base64_key \o WS_GUID)))

\* ws_generate_client_key: rnd is what getrandom (or rand) gives; returns 0
ws_generate_client_key(rnd) == ws_base64_encode(rnd)

\* "GET "
StrGet ==
    <<71, 69, 84, 32>>

\* " HTTP/1.1\r\nHost: "
StrHost ==
    <<32, 72, 84, 84, 80, 47, 49, 46, 49, 13, 10, 72, 111, 115, 116, 58, 32>>

\* "\r\nUpgrade: websocket\r\nConnection: Upgrade\r\nSec-WebSocket-Key: "
StrKey ==
    <<13, 10, 85, 112, 103, 114, 97, 100, 101, 58, 32, 119, 101, 98, 115, 111, 99, 107,
      101, 116, 13, 10, 67, 111, 110, 110, 101, 99, 116, 105, 111, 110, 58, 32, 85, 112,
      103, 114, 97, 100, 101, 13, 10, 83, 101, 99, 45, 87, 101, 98, 83, 111, 99, 107, 101,
      116, 45, 75, 101, 121, 58, 32>>

\* "\r\nSec-WebSocket-Version: 13\r\n"
StrVersion ==
    <<13, 10, 83, 101, 99, 45, 87, 101, 98, 83, 111, 99, 107, 101, 116, 45, 86, 101, 114,
      115, 105, 111, 110, 58, 32, 49, 51, 13, 10>>

\* "User-Agent: "
StrUserAgent ==
    <<85, 115, 101, 114, 45, 65, 103, 101, 110, 116, 58, 32>>

\* "Origin: "
StrOrigin ==
    <<79, 114, 105, 103, 105, 110, 58, 32>>

\* "Sec-WebSocket-Protocol: "
StrProtocol ==
    <<83, 101, 99, 45, 87, 101, 98, 83, 111, 99, 107, 101, 116, 45, 80, 114, 111, 116, 111,
      99, 111, 108, 58, 32>>

\* "\r\n"
CRLF == <<13, 10>>

\* one optional header line appended at off: snprintf into what is left of
\* out; the request so far, or NULL (NullBytes) when the line does not fit.
\* value is NULL (NullBytes) or a string.
request_line(req, out_cap, name, value) ==
    IF req = NullBytes THEN NullBytes
    ELSE IF value = NullBytes \/ value = <<>> THEN req
    ELSE IF Len(name) + Len(value) + 2 >= out_cap - Len(req) THEN NullBytes
    ELSE req \o name \o value \o CRLF

\* the request line and the fixed headers as snprintf formats them
request_text(host, port, path, key) ==
    StrGet \o path \o StrHost \o host \o <<58>> \o Decimal(port) \o StrKey \o key
    \o StrVersion

\* the first snprintf's result checked against out_cap
request_head(text, out_cap) == IF Len(text) >= out_cap THEN NullBytes ELSE text

\* the closing blank line
request_end(req, out_cap) ==
    IF req = NullBytes THEN NullBytes
    ELSE IF Len(req) + 2 >= out_cap THEN NullBytes
    ELSE req \o CRLF

\* ws_build_handshake_request(host, port, path, key, user_agent, origin,
\* protocol, out, out_cap): the request written, NULL (NullBytes) for -1
ws_build_handshake_request(host, port, path, key, user_agent, origin, protocol, out_cap) ==
    IF host = NullBytes \/ path = NullBytes \/ key = NullBytes THEN NullBytes
    ELSE request_end(
             request_line(
                 request_line(
                     request_line(request_head(request_text(host, port, path, key), out_cap),
                                  out_cap, StrUserAgent, user_agent),
                     out_cap, StrOrigin, origin),
                 out_cap, StrProtocol, protocol),
             out_cap)

\* one turn of the loop of ws_find_header_ci; at is what strstr(p, name)
\* returned
RECURSIVE find_header_from(_, _, _)
RECURSIVE find_header_at(_, _, _)
find_header_at(resp, header_name, at) ==
    IF at = NULL THEN NULL
    ELSE IF at # 0 /\ resp[at] # 10 THEN find_header_from(resp, header_name, at + 1)
    ELSE IF CharAt(resp, at + Len(header_name)) # 58
         THEN find_header_from(resp, header_name, at + 1)
    ELSE at + Len(header_name) + 1

\* ws_find_header_ci searching from offset p
find_header_from(resp, header_name, p) ==
    find_header_at(resp, header_name, strstr(resp, p, header_name))

\* ws_find_header_ci(resp, header_name): the offset behind the colon of the
\* first occurrence of the name that starts a line and is followed by ':',
\* NULL if there is none
ws_find_header_ci(resp, header_name) == find_header_from(resp, header_name, 0)

\* ws_trim_lws: the new start, behind leading spaces and tabs
RECURSIVE trim_start(_, _, _)
trim_start(s, start, end) ==
    IF start < end /\ s[start + 1] \in {32, 9} THEN trim_start(s, start + 1, end) ELSE start

\* ws_trim_lws: the new end, before trailing spaces, tabs and CRs
RECURSIVE trim_end(_, _, _)
trim_end(s, start, end) ==
    IF end > start /\ s[end] \in {32, 9, 13} THEN trim_end(s, start, end - 1) ELSE end

\* ws_strcasestr(s + from, needle): the first offset from which needle is
\* read whatever the letter case, NULL if none; the haystack runs to the end
\* of the string
ws_strcasestr(s, from, needle) ==
    IF needle = <<>> THEN from
    ELSE IF \E p \in from..(Len(s) - Len(needle)) :
               \A i \in 1..Len(needle) : ToLower(s[p + i]) = ToLower(needle[i])
    THEN First({p \in from..(Len(s) - Len(needle)) :
                   \A i \in 1..Len(needle) : ToLower(s[p + i]) = ToLower(needle[i])})
    ELSE NULL

\* "HTTP/1.1 101"
StrStatus101 ==
    <<72, 84, 84, 80, 47, 49, 46, 49, 32, 49, 48, 49>>

\* "Upgrade"
StrUpgrade ==
    <<85, 112, 103, 114, 97, 100, 101>>

\* "Connection"
StrConnection ==
    <<67, 111, 110, 110, 101, 99, 116, 105, 111, 110>>

\* "Sec-WebSocket-Accept"
StrAccept ==
    <<83, 101, 99, 45, 87, 101, 98, 83, 111, 99, 107, 101, 116, 45, 65, 99, 99, 101, 112,
      116>>

\* "websocket"
StrWebsocket ==
    <<119, 101, 98, 115, 111, 99, 107, 101, 116>>

\* "upgrade"
StrUpgradeLower ==
    <<117, 112, 103, 114, 97, 100, 101>>

\* ws_validate_handshake_response from the trimmed values on: up, co and ac
\* are the starts of the three values, ac_end the end of the accept value
validate_trimmed(response, expected_accept, up, co, ac, ac_end) ==
    IF ws_strcasestr(response, up, StrWebsocket) = NULL THEN 0 - 1
    ELSE IF ws_strcasestr(response, co, StrUpgradeLower) = NULL THEN 0 - 1
    ELSE IF Len(expected_accept) # ac_end - ac THEN 0 - 1
    ELSE IF Slice(response, ac, ac_end - ac) # expected_accept THEN 0 - 1
    ELSE 0

\* ws_validate_handshake_response from the ends of the three header lines
\* on: upv, cov, acv are the offsets behind the colons
validate_lines(response, expected_accept, upv, cov, acv, up_end, co_end, ac_end) ==
    IF up_end = NULL \/ co_end = NULL \/ ac_end = NULL THEN 0 - 1
    ELSE validate_trimmed(response, expected_accept,
                          trim_start(response, upv, up_end),
                          trim_start(response, cov, co_end),
                          trim_start(response, acv, ac_end),
                          trim_end(response, trim_start(response, acv, ac_end), ac_end))

\* ws_validate_handshake_response from the three header lookups on
validate_values(response, expected_accept, upv, cov, acv) ==
    IF upv = NULL \/ cov = NULL \/ acv = NULL THEN 0 - 1
    ELSE validate_lines(response, expected_accept, upv, cov, acv,
                        strchr(response, upv, 10), strchr(response, cov, 10),
                        strchr(response, acv, 10))

\* the check of the status line; status is what strstr(response,
\* "HTTP/1.1 101") returned
status_ok(response, status) ==
    /\ status # NULL
    /\ status = 0 \/ response[status] = 10

\* ws_validate_handshake_response(response, expected_accept): 0 or -1
ws_validate_handshake_response(response, expected_accept) ==
    IF response = NullBytes \/ expected_accept = NullBytes THEN 0 - 1
    ELSE IF ~status_ok(response, strstr(response, 0, StrStatus101)) THEN 0 - 1
    ELSE validate_values(response, expected_accept,
                         ws_find_header_ci(response, StrUpgrade),
                         ws_find_header_ci(response, StrConnection),
                         ws_find_header_ci(response, StrAccept))

(***************************************************************************)
(* wibesocket.c: the connection engine. A connection is the struct         *)
(* wibesocket_conn; recv_buf holds the first recv_size bytes of the buffer *)
(* (the bytes behind them are never read before they are overwritten).     *)
(***************************************************************************)
\* the struct as calloc leaves it: no connection is behind the handle
NoConn ==
    [ state           |-> "INIT",
      last_error      |-> "OK",
      recv_buf        |-> <<>>,
      recv_size       |-> 0,
      recv_cap        |-> 0,
      pending_consume |-> 0,
      parser          |-> [ws_parser_init(0) EXCEPT !.max_frame_size = 0, !.hdr_need = 0],
      pinned_payload  |-> NULL,
      pinned_len      |-> 0,
      pinned_refcnt   |-> 0 ]

\* the connection wibesocket_connect returns after a validated handshake
new_conn(max_frame_size) ==
    [ state           |-> "OPEN",
      last_error      |-> "OK",
      recv_buf        |-> <<>>,
      recv_size       |-> 0,
      recv_cap        |-> (IF max_frame_size # 0 THEN max_frame_size ELSE 1048576) + RecvSlack,
      pending_consume |-> 0,
      parser          |-> ws_parser_init(max_frame_size),
      pinned_payload  |-> NULL,
      pinned_len      |-> 0,
      pinned_refcnt   |-> 0 ]

\* one socket write: the buffer handed to send() and send()'s return value
Write(buf, wr) == [buf |-> buf, wr |-> wr]

\* how a send() call ends: an error (EAGAIN included), a short write, or the
\* whole buffer written
SendResults == {"error", "short", "full"}

\* send()'s return value for a buffer of n bytes
send_return(n, wr) == IF wr = "error" THEN 0 - 1 ELSE IF wr = "short" THEN 1 ELSE n

\* send_frame from the send() call on; buf is what ws_build_frame wrote
send_built(c, buf, wr) ==
    IF buf = <<>> THEN [ret |-> "BUFFER_FULL", c |-> c, written |-> <<>>]
    ELSE IF send_return(Len(buf), wr) < 0
         THEN [ret |-> "NETWORK", c |-> c,
               written |-> <<Write(buf, send_return(Len(buf), wr))>>]
    ELSE [ret |-> "OK", c |-> c, written |-> <<Write(buf, send_return(Len(buf), wr))>>]

\* send_frame refusing the CLOSED state only: C14 fails on it
send_frame_unless_closed(c, opcode, data, mask, wr) ==
    IF c.state = "CLOSED" THEN [ret |-> "NOT_READY", c |-> c, written |-> <<>>]
    ELSE send_built(c, ws_build_frame(6 + Len(data), TRUE, opcode, mask, data), wr)

\* send_frame(c, opcode, data, len); mask is what gen_mask draws, wr how
\* send() ends. The frame buffer lives for the call only: it is taken with
\* alloca (need <= 16384) and handed to free() only if it differs from
\* alloca(0), which is the case for a heap buffer alone where alloca(0)
\* returns the top of the stack block just taken; the model follows those
\* builds.
send_frame(c, opcode, data, mask, wr) ==
    IF c.state # "OPEN" THEN [ret |-> "NOT_READY", c |-> c, written |-> <<>>]
    ELSE
    LET len  == Len(data)
        hdr  == 2 + (IF len <= 125 THEN 0 ELSE IF len <= 65535 THEN 2 ELSE 8) + 4
    IN  send_built(c, ws_build_frame(hdr + len, TRUE, opcode, mask, data), wr)

wibesocket_send_text(c, text, mask, wr) ==
    send_frame(c, WS_OPCODE_TEXT, text, mask, wr)

wibesocket_send_binary(c, data, mask, wr) ==
    send_frame(c, WS_OPCODE_BINARY, data, mask, wr)

wibesocket_send_ping(c, data, mask, wr) ==
    send_frame(c, WS_OPCODE_PING, data, mask, wr)

\* the reason bytes wibesocket_send_close copies: none for NULL, at most 125
close_reason(reason) ==
    IF reason = NullBytes THEN <<>> ELSE SubSeq(reason, 1, Min(Len(reason), 125))

\* wibesocket_send_close setting the state to OPEN when the frame was not
\* sent: C12 fails on it
close_sent_reopening(e) ==
    IF e.ret = "OK" THEN [e EXCEPT !.c.state = "CLOSING"] ELSE [e EXCEPT !.c.state = "OPEN"]

\* wibesocket_send_close behind its send_frame call, whose result is e
close_sent(e) == IF e.ret = "OK" THEN [e EXCEPT !.c.state = "CLOSING"] ELSE e

\* wibesocket_send_close writing the code low byte first: C10 fails on it
send_close_low_byte_first(c, code, reason, mask, wr) ==
    close_sent(send_frame(c, WS_OPCODE_CLOSE,
                          <<code % 256, (code \div 256) % 256>> \o close_reason(reason),
                          mask, wr))

\* wibesocket_send_close(conn, code, reason): reason is NULL (NullBytes) or a
\* byte string
wibesocket_send_close(c, code, reason, mask, wr) ==
    close_sent(send_frame(c, WS_OPCODE_CLOSE,
                          <<(code \div 256) % 256, code % 256>> \o close_reason(reason),
                          mask, wr))

\* the message struct the caller hands to recv, while recv has not filled it
NoMsg == [type |-> NULL, payload |-> NULL, payload_len |-> 0, is_final |-> FALSE]

\* what one wibesocket_recv call leaves behind: the connection, the return
\* value, the parser's status (WS_PARSER_OK when the parser did not run), the
\* parsed frame, the caller's message struct, the socket writes, and how many
\* bytes it took from the socket
RecvOut(c, ret, st, fr, msg, written, nread) ==
    [c |-> c, ret |-> ret, st |-> st, fr |-> fr, msg |-> msg, written |-> written,
     nread |-> nread]

\* wibesocket_recv behind the reply to a PING (s is what wibesocket_send_ping
\* left, its return value ignored)
ping_answered(s, fr, nread) ==
    RecvOut(s.c, "NOT_READY", WS_PARSER_FRAME, fr, NoMsg, s.written, nread)

\* wibesocket_recv behind the reply to a CLOSE
close_answered(s, fr, nread) ==
    RecvOut([s.c EXCEPT !.state = "CLOSED"], "CLOSED", WS_PARSER_FRAME, fr, NoMsg,
            s.written, nread)

\* wibesocket_recv with a parsed frame: the control frames, then the message
\* and the pin. c3 is the connection with pending_consume recorded.
recv_frame(c3, fr, io) ==
    IF fr.type = WS_OPCODE_PING THEN
        ping_answered(wibesocket_send_ping(c3, Slice(c3.recv_buf, fr.payload, fr.payload_len),
                                           io.mask, io.wr),
                      fr, Len(io.bytes))
    ELSE IF fr.type = WS_OPCODE_CLOSE THEN
        close_answered(wibesocket_send_close(c3, WIBESOCKET_CLOSE_NORMAL, <<>>, io.mask, io.wr),
                       fr, Len(io.bytes))
    ELSE
        RecvOut([c3 EXCEPT !.pinned_payload = fr.payload,
                           !.pinned_len = fr.payload_len,
                           !.pinned_refcnt = 1],
                "OK", WS_PARSER_FRAME, fr,
                [type |-> IF fr.type = WS_OPCODE_TEXT THEN WS_OPCODE_TEXT
                          ELSE IF fr.type = WS_OPCODE_BINARY THEN WS_OPCODE_BINARY
                          ELSE WS_OPCODE_CONTINUATION,
                 payload |-> fr.payload,
                 payload_len |-> fr.payload_len,
                 is_final |-> fr.is_final],
                <<>>, Len(io.bytes))

\* wibesocket_recv behind the ws_parser_feed call, whose result is r; c1 is
\* the connection with the bytes just read in its buffer
recv_parsed(c1, r, io) ==
    IF r.st = WS_PARSER_NEED_MORE
    THEN RecvOut([c1 EXCEPT !.parser = r.p], "NOT_READY", r.st, NoFrame, NoMsg, <<>>,
                 Len(io.bytes))
    ELSE IF r.st < 0
    THEN RecvOut([c1 EXCEPT !.parser = r.p, !.last_error = "PROTOCOL"], "PROTOCOL", r.st,
                 NoFrame, NoMsg, <<>>, Len(io.bytes))
    ELSE recv_frame([c1 EXCEPT !.parser = r.p, !.pending_consume = r.consumed], r.frame, io)

\* wibesocket_recv with rd > 0 bytes read
recv_feed(c1, io) ==
    recv_parsed(c1, ws_parser_feed(c1.parser, SubSeq(c1.recv_buf, 1, c1.recv_size), io.oob), io)

\* wibesocket_recv dropping what it has buffered when the wait times out:
\* C20 fails on it
recv_io_dropping_on_timeout(c, io) ==
    IF io.w <= 0
    THEN RecvOut([c EXCEPT !.recv_buf = <<>>, !.recv_size = 0], "TIMEOUT", WS_PARSER_OK,
                 NoFrame, NoMsg, <<>>, 0)
    ELSE IF io.rd = "eagain" THEN RecvOut(c, "TIMEOUT", WS_PARSER_OK, NoFrame, NoMsg, <<>>, 0)
    ELSE IF io.rd = "error" THEN RecvOut(c, "NETWORK", WS_PARSER_OK, NoFrame, NoMsg, <<>>, 0)
    ELSE IF io.rd = "zero"
         THEN RecvOut([c EXCEPT !.state = "CLOSED"], "CLOSED", WS_PARSER_OK, NoFrame, NoMsg,
                      <<>>, 0)
    ELSE recv_feed([c EXCEPT !.recv_buf = @ \o io.bytes, !.recv_size = @ + Len(io.bytes)], io)

\* wibesocket_recv past its two entry checks: the readiness wait, the socket
\* read, the parse and the dispatch on the frame type. io is what the system
\* calls give this call: w (epoll_wait), rd and bytes (recv), mask (gen_mask),
\* wr (send), oob (bytes read outside the recv buffer's data).
recv_io(c, io) ==
    IF io.w <= 0 THEN RecvOut(c, "TIMEOUT", WS_PARSER_OK, NoFrame, NoMsg, <<>>, 0)
    ELSE IF io.rd = "eagain" THEN RecvOut(c, "TIMEOUT", WS_PARSER_OK, NoFrame, NoMsg, <<>>, 0)
    ELSE IF io.rd = "error" THEN RecvOut(c, "NETWORK", WS_PARSER_OK, NoFrame, NoMsg, <<>>, 0)
    ELSE IF io.rd = "zero"
         THEN RecvOut([c EXCEPT !.state = "CLOSED"], "CLOSED", WS_PARSER_OK, NoFrame, NoMsg,
                      <<>>, 0)
    ELSE recv_feed([c EXCEPT !.recv_buf = @ \o io.bytes, !.recv_size = @ + Len(io.bytes)], io)

\* wibesocket_recv without the check of the pin: C1 fails on it
recv_ignoring_pin(c, io) ==
    IF c.state # "OPEN" THEN RecvOut(c, "NOT_READY", WS_PARSER_OK, NoFrame, NoMsg, <<>>, 0)
    ELSE recv_io(c, io)

\* wibesocket_recv(conn, msg, timeout_ms)
wibesocket_recv(c, io) ==
    IF c.state # "OPEN" THEN RecvOut(c, "NOT_READY", WS_PARSER_OK, NoFrame, NoMsg, <<>>, 0)
    ELSE IF c.pinned_refcnt > 0
         THEN RecvOut(c, "NOT_READY", WS_PARSER_OK, NoFrame, NoMsg, <<>>, 0)
    ELSE recv_io(c, io)

\* wibesocket_retain_payload taking no reference: C3 fails on it
retain_taking_no_reference(c) == c

wibesocket_retain_payload(c) ==
    IF c.pinned_refcnt > 0 THEN [c EXCEPT !.pinned_refcnt = @ + 1] ELSE c

\* the compaction leaving pending_consume as it was: C38 fails on it
slide_keeping_pending(c) ==
    IF c.pending_consume > 0 /\ c.pending_consume <= c.recv_size
    THEN [c EXCEPT !.recv_buf = Slice(c.recv_buf, c.pending_consume,
                                      c.recv_size - c.pending_consume),
                   !.recv_size = @ - c.pending_consume]
    ELSE c

\* the compaction inside release: memmove of the bytes behind the consumed
\* prefix to offset 0
slide_consumed(c) ==
    IF c.pending_consume > 0 /\ c.pending_consume <= c.recv_size
    THEN [c EXCEPT !.recv_buf = Slice(c.recv_buf, c.pending_consume,
                                      c.recv_size - c.pending_consume),
                   !.recv_size = @ - c.pending_consume,
                   !.pending_consume = 0]
    ELSE c

\* wibesocket_release_payload compacting whatever the reference count is:
\* C2 fails on it
release_compacting_at_once(c) ==
    LET c1 == IF c.pinned_refcnt > 0 THEN [c EXCEPT !.pinned_refcnt = @ - 1] ELSE c
    IN  IF c1.pinned_refcnt = 0
        THEN [slide_consumed(c1) EXCEPT !.pinned_payload = NULL, !.pinned_len = 0]
        ELSE slide_consumed(c1)

wibesocket_release_payload(c) ==
    LET c1 == IF c.pinned_refcnt > 0 THEN [c EXCEPT !.pinned_refcnt = @ - 1] ELSE c
    IN  IF c1.pinned_refcnt = 0
        THEN [slide_consumed(c1) EXCEPT !.pinned_payload = NULL, !.pinned_len = 0]
        ELSE c1

\* wibesocket_get_state(conn); NoConn stands for the NULL handle
wibesocket_get_state(c) == IF c = NoConn THEN "ERROR" ELSE c.state

\* wibesocket_get_error(conn)
wibesocket_get_error(c) == IF c = NoConn THEN "INVALID_ARGS" ELSE c.last_error

(***************************************************************************)
(* wibesocket.c: wibesocket_connect and the opening handshake.             *)
(***************************************************************************)
\* sizeof(req) and sizeof(resp) in do_handshake
ReqSize == 1024
RespSize == 4096

\* "://", "ws", "80", "/"
StrSchemeSep == <<58, 47, 47>>
StrWs == <<119, 115>>
StrPort80 == <<56, 48>>
StrSlash == <<47>>

\* parse_ws_uri behind the scheme: host_start .. host_end holds host[:port],
\* slash is the start of the path or NULL, colon the ':' between host_start
\* and host_end or NULL
uri_parts(uri, host_start, slash, host_end, colon) ==
    [ok   |-> TRUE,
     host |-> IF colon # NULL THEN Slice(uri, host_start, colon - host_start)
              ELSE Slice(uri, host_start, host_end - host_start),
     port |-> IF colon # NULL THEN Slice(uri, colon + 1, host_end - (colon + 1))
              ELSE StrPort80,
     path |-> IF slash # NULL THEN Slice(uri, slash, Len(uri) - slash) ELSE StrSlash]

\* memchr(s + from, ch, n)
memchr(s, from, ch, n) ==
    IF strchr(s, from, ch) # NULL /\ strchr(s, from, ch) < from + n
    THEN strchr(s, from, ch)
    ELSE NULL

\* parse_ws_uri from the host on; slash is what strchr(p, '/') returned
uri_host(uri, host_start, slash) ==
    uri_parts(uri, host_start, slash,
              IF slash # NULL THEN slash ELSE Len(uri),
              memchr(uri, host_start, 58,
                     (IF slash # NULL THEN slash ELSE Len(uri)) - host_start))

\* parse_ws_uri(uri, &host, &port, &path) for ws://host[:port]/path; p is
\* what strstr(uri, "://") returned
uri_scheme(uri, p) ==
    IF p = NULL THEN [ok |-> FALSE, host |-> <<>>, port |-> <<>>, path |-> <<>>]
    ELSE IF ~(p = 2 /\ Slice(uri, 0, 2) = StrWs)
         THEN [ok |-> FALSE, host |-> <<>>, port |-> <<>>, path |-> <<>>]
    ELSE uri_host(uri, p + 3, strchr(uri, p + 3, 47))

parse_ws_uri(uri) == uri_scheme(uri, strstr(uri, 0, StrSchemeSep))

\* what do_handshake leaves behind: its return value, the request handed to
\* send(), the scratch buffer resp[0 .. resp_len), and the bytes of the peer
\* the loop has not read
HsOut(ret, written, resp, rest) ==
    [ret |-> ret, written |-> written, resp |-> resp, rest |-> rest]

\* do_handshake was not reached
NoHs(io) == HsOut("NONE", <<>>, <<>>, io.response)

\* one event of the response loop of do_handshake: epoll_wait times out
\* ("timeout"), recv() fails with EAGAIN ("eagain") or another error
\* ("error"), the peer has shut down ("eof"), or bytes have arrived ("data"):
\* all the peer has sent but the last `leave` ones
HsEvent(ev, leave) == [ev |-> ev, leave |-> leave]

\* how many bytes one recv(fd, resp + resp_len, sizeof(resp) - 1 - resp_len)
\* returns on the event e when avail are the peer's bytes not read yet
hs_recv_len(resp, avail, e) ==
    IF e.ev = "data" /\ Len(avail) > e.leave
    THEN Min(Len(avail) - e.leave, RespSize - 1 - Len(resp))
    ELSE IF e.ev = "eof" THEN Min(Len(avail), RespSize - 1 - Len(resp))
    ELSE 0

\* do_handshake taking the response without validating it: C13 fails on it
hs_unvalidated(written, resp, rest, expected_accept) == HsOut("OK", written, resp, rest)

\* do_handshake from the validation on
hs_validated(written, resp, rest, expected_accept) ==
    IF ws_validate_handshake_response(CStr(resp), expected_accept) # 0
    THEN HsOut("HANDSHAKE", written, resp, rest)
    ELSE HsOut("OK", written, resp, rest)

\* the response loop of do_handshake; script is what happens at the socket
\* from now on, nothing more when it is empty. hs_got is the loop body behind
\* a recv() that returned data.
RECURSIVE hs_loop(_, _, _, _, _)
RECURSIVE hs_got(_, _, _, _, _)
hs_got(written, resp, avail, script, expected_accept) ==
    IF strstr(CStr(resp), 0, CRLF \o CRLF) # NULL
    THEN hs_validated(written, resp, avail, expected_accept)
    ELSE IF Len(resp) >= RespSize - 1 THEN HsOut("HANDSHAKE", written, resp, avail)
    ELSE hs_loop(written, resp, avail, script, expected_accept)

hs_loop(written, resp, avail, script, expected_accept) ==
    IF script = <<>> THEN HsOut("TIMEOUT", written, resp, avail)
    ELSE IF Head(script).ev = "timeout" THEN HsOut("TIMEOUT", written, resp, avail)
    ELSE IF Head(script).ev = "error" THEN HsOut("NETWORK", written, resp, avail)
    ELSE IF hs_recv_len(resp, avail, Head(script)) = 0
         THEN IF Head(script).ev = "eof"
              THEN HsOut("NETWORK", written, resp, avail)
              ELSE hs_loop(written, resp, avail, Tail(script), expected_accept)
    ELSE hs_got(written,
                resp \o SubSeq(avail, 1, hs_recv_len(resp, avail, Head(script))),
                SubSeq(avail, hs_recv_len(resp, avail, Head(script)) + 1, Len(avail)),
                Tail(script), expected_accept)

\* how the send() of the request ends
HsSendResults == {"error", "eagain", "short", "full"}

\* do_handshake from the send() of the request on
hs_request(req, io, expected_accept) ==
    IF req = NullBytes THEN HsOut("HANDSHAKE", <<>>, <<>>, io.response)
    ELSE IF io.wr = "error"
         THEN HsOut("NETWORK", <<Write(req, 0 - 1)>>, <<>>, io.response)
    ELSE hs_loop(<<Write(req, IF io.wr = "eagain" THEN 0 - 1
                              ELSE send_return(Len(req), io.wr))>>,
                 <<>>, io.response, io.script, expected_accept)

\* c->client_key and c->expected_accept as do_handshake fills them first;
\* rnd is what the random source gives ws_generate_client_key
handshake_keys(rnd) ==
    [client_key      |-> ws_generate_client_key(rnd),
     expected_accept |-> ws_compute_accept(ws_generate_client_key(rnd))]

\* the 16 random bytes of the key: "the sample nonce", whose key is
\* dGhlIHNhbXBsZSBub25jZQ== and whose accept value is
\* s3pPLMBiTxaQ9kYGzzhZRbK+xOo= (RFC 6455, section 1.3)
RandomKeys ==
    { <<116, 104, 101, 32, 115, 97, 109, 112, 108, 101, 32, 110, 111, 110, 99, 101>> }

\* the two keys of every draw, computed once
HandshakeKeys == { [rnd |-> rnd, keys |-> handshake_keys(rnd)] : rnd \in RandomKeys }

keys_of(rnd) == (CHOOSE e \in HandshakeKeys : e.rnd = rnd).keys

\* the struct fields before do_handshake has run
NoKeys == [client_key |-> <<>>, expected_accept |-> <<>>]

\* do_handshake behind the two keys k
hs_keyed(cfg, host, port, path, io, k) ==
    hs_request(ws_build_handshake_request(host, port, path, k.client_key,
                                          cfg.user_agent, cfg.origin, cfg.protocol, ReqSize),
               io, k.expected_accept)

\* do_handshake(c, host, port, path). io is what the system gives the call:
\* rnd (the random bytes of the key), wr (how send() ends), response (the
\* bytes the peer sends) and script (the events of the response loop).
do_handshake(cfg, host, port, path, io) ==
    hs_keyed(cfg, host, port, path, io, keys_of(io.rnd))

\* what wibesocket_connect leaves behind: the connection (NoConn when it
\* returns NULL), the last_error it wrote before giving up ("NONE" when it
\* returned NULL without writing one), and what do_handshake left
ConnectOut(c, err, h) == [c |-> c, err |-> err, h |-> h]

\* the steps of wibesocket_connect that can fail at the system: the
\* allocations, socket_connect_nb, epoll_create1, ep_add_out, ep_mod_in
ConnectSys == {"ok", "memory", "socket", "epoll_create", "epoll_add", "epoll_mod"}

\* wibesocket_connect behind do_handshake, whose result is h
connect_done(cfg, h) ==
    IF h.ret # "OK" THEN ConnectOut(NoConn, h.ret, h)
    ELSE ConnectOut(new_conn(cfg.max_frame_size), "OK", h)

\* wibesocket_connect(uri, config) behind parse_ws_uri, whose result is u.
\* io.sys is the system step that fails, io.w what epoll_wait returns for
\* the connect.
connect_parsed(u, cfg, io) ==
    IF ~u.ok THEN ConnectOut(NoConn, "NONE", NoHs(io))
    ELSE IF io.sys = "memory"
         THEN ConnectOut(NoConn, "NONE", NoHs(io))
    ELSE IF io.sys \in {"socket", "epoll_create", "epoll_add"}
         THEN ConnectOut(NoConn, "NETWORK", NoHs(io))
    ELSE IF io.w <= 0
         THEN ConnectOut(NoConn, "TIMEOUT", NoHs(io))
    ELSE IF io.sys = "epoll_mod"
         THEN ConnectOut(NoConn, "NETWORK", NoHs(io))
    ELSE connect_done(cfg, do_handshake(cfg, u.host, atoi(u.port), u.path, io))

\* wibesocket_connect(uri, config)
wibesocket_connect(uri, cfg, io) ==
    IF uri = NullBytes
    THEN ConnectOut(NoConn, "NONE", NoHs(io))
    ELSE connect_parsed(parse_ws_uri(uri), cfg, io)

(***************************************************************************)
(* The state machine: one caller thread, one connection, one peer.         *)
(***************************************************************************)
VARIABLES
    handle,       \* "none" before connect, "live", "failed" (connect returned NULL), "freed"
    conn,         \* the wibesocket_conn struct behind the handle
    sock_in,      \* bytes the peer has sent and the client has not read yet
    peer_eof,     \* the peer has shut its side down
    peer_bytes,   \* how many bytes the peer has sent
    op,           \* the API call that has just returned, "idle" between calls
    ret,          \* what it returned
    st,           \* the parser status inside the last recv
    fr,           \* the frame the parser returned inside the last recv
    msg,          \* the caller's message struct after the last recv
    written,      \* the socket writes of the last call
    pings_in,     \* history: PING frames the peer has sent
    pings_answered, \* history: replies to parsed PING frames the socket has taken
    retains,      \* history: retain_payload calls since the last recv that returned OK
    releases,     \* history: release_payload calls since then; retains + 1 once the
                  \* caller has released every reference it took
    proto_seen,   \* history: a recv has returned protocol
    close_seen,   \* history: a recv has parsed a CLOSE frame
    gram,         \* history: the message grammar over the frames recv returned OK
    stream,       \* history: the peer's stream: the data frames sent and not yet
                  \* delivered, whether a fragmented message is open in it, and
                  \* whether every frame sent so far was a valid one
    hs,           \* history: the wibesocket_connect call that has just returned:
                  \* its arguments, what the system gave it, the last_error it
                  \* wrote and what do_handshake left
    test          \* the parser and the validator on their own: the input drawn,
                  \* the parser fed with it so far, and the results returned

vars == <<handle, conn, sock_in, peer_eof, peer_bytes, op, ret, st, fr, msg,
          written, pings_in, pings_answered, retains, releases, proto_seen, close_seen,
          gram, stream, hs, test>>

\* the variables of the connection engine
engineVars == <<handle, conn, sock_in, peer_eof, peer_bytes, op, ret, st, fr, msg,
                written, pings_in, pings_answered, retains, releases, proto_seen,
                close_seen, gram, stream, hs>>

envVars == <<sock_in, peer_eof, peer_bytes, pings_in>>

obsVars == <<op, ret, st, fr, msg, written>>

histVars == <<pings_answered, retains, releases, proto_seen, close_seen, gram, stream>>

\* the frames the peer chooses from, as wire bytes
PeerFrames ==
    { <<129, 1, 65>>,          \* TEXT, FIN, "A"
      <<1, 1, 65>>,            \* TEXT, no FIN, "A"
      <<128, 1, 66>>,          \* CONTINUATION, FIN, "B"
      <<137, 1, 66>>,          \* PING, "B"
      <<138, 0>>,              \* PONG, empty
      <<136, 0>>,              \* CLOSE, empty
      <<136, 2, 3, 232>>,      \* CLOSE, code 1000
      <<131, 0>>,              \* reserved opcode 3
      <<129, 1, 255>>,         \* TEXT, FIN, invalid UTF-8
      <<130, 126, 0, 200>> }   \* BINARY, FIN, 200 bytes announced

\* the mask keys gen_mask may draw inside recv, and inside the caller's sends
MaskKeys == { <<0, 0, 0, 0>>, <<55, 250, 33, 61>> }
UserMaskKeys == { <<55, 250, 33, 61>> }

\* the length of the long reason string the caller passes to send_close
LongReason == 124

\* the payloads the caller sends
UserPayloads == { <<72>> }

\* the close codes and reasons the caller passes to send_close: 1000 without
\* a reason, and 1005 with the reason "b"
UserCloseArgs == { [code |-> 1000, reason |-> NullBytes], [code |-> 1005, reason |-> <<98>>] }

\* 1000 with a reason of 124 bytes, with which the payload is 126 bytes
LongCloseArgs == { [code |-> 1000, reason |-> [i \in 1..LongReason |-> 98]] }

\* the URIs the caller connects to: "ws://h/", "ws://h:8080/chat", and
\* "http://h/", which parse_ws_uri refuses
ConnectUris ==
    { <<119, 115, 58, 47, 47, 104, 47>>,
      <<119, 115, 58, 47, 47, 104, 58, 56, 48, 56, 48, 47, 99, 104, 97, 116>>,
      <<104, 116, 116, 112, 58, 47, 47, 104, 47>> }

\* the configurations the caller passes: no optional header, and a
\* User-Agent of 1000 characters, with which the request does not fit req
ConnectConfigs ==
    { [max_frame_size |-> MaxFrameSize, user_agent |-> NullBytes, origin |-> NullBytes,
       protocol |-> NullBytes],
      [max_frame_size |-> MaxFrameSize, user_agent |-> [i \in 1..1000 |-> 97],
       origin |-> NullBytes, protocol |-> NullBytes] }

\* the 101 response to that key
GoodResponse ==
    <<72, 84, 84, 80, 47, 49, 46, 49, 32, 49, 48, 49, 32, 83, 119, 105, 116, 99, 104, 105,
      110, 103, 32, 80, 114, 111, 116, 111, 99, 111, 108, 115, 13, 10, 85, 112, 103, 114,
      97, 100, 101, 58, 32, 119, 101, 98, 115, 111, 99, 107, 101, 116, 13, 10, 67, 111,
      110, 110, 101, 99, 116, 105, 111, 110, 58, 32, 85, 112, 103, 114, 97, 100, 101, 13,
      10, 83, 101, 99, 45, 87, 101, 98, 83, 111, 99, 107, 101, 116, 45, 65, 99, 99, 101,
      112, 116, 58, 32, 115, 51, 112, 80, 76, 77, 66, 105, 84, 120, 97, 81, 57, 107, 89,
      71, 122, 122, 104, 90, 82, 98, 75, 43, 120, 79, 111, 61, 13, 10, 13, 10>>

\* the same with another accept value
WrongAcceptResponse ==
    <<72, 84, 84, 80, 47, 49, 46, 49, 32, 49, 48, 49, 32, 83, 119, 105, 116, 99, 104, 105,
      110, 103, 32, 80, 114, 111, 116, 111, 99, 111, 108, 115, 13, 10, 85, 112, 103, 114,
      97, 100, 101, 58, 32, 119, 101, 98, 115, 111, 99, 107, 101, 116, 13, 10, 67, 111,
      110, 110, 101, 99, 116, 105, 111, 110, 58, 32, 85, 112, 103, 114, 97, 100, 101, 13,
      10, 83, 101, 99, 45, 87, 101, 98, 83, 111, 99, 107, 101, 116, 45, 65, 99, 99, 101,
      112, 116, 58, 32, 115, 51, 112, 81, 76, 77, 66, 105, 84, 120, 97, 81, 57, 107, 89,
      71, 122, 122, 104, 90, 82, 98, 75, 43, 120, 79, 111, 61, 13, 10, 13, 10>>

\* "HTTP/1.1 400 Bad Request\r\n\r\n"
RefusedResponse ==
    <<72, 84, 84, 80, 47, 49, 46, 49, 32, 52, 48, 48, 32, 66, 97, 100, 32, 82, 101, 113,
      117, 101, 115, 116, 13, 10, 13, 10>>

\* the frame a server sends right behind its response: TEXT, FIN, "A"
EarlyFrame == <<129, 1, 65>>

\* what the peer answers to the request: the 101 response, the same with a
\* frame right behind it, the same with a wrong accept value, a 400, the 101
\* response without its last CRLF, and a header line that never ends
PeerResponses ==
    { GoodResponse,
      GoodResponse \o EarlyFrame,
      WrongAcceptResponse,
      RefusedResponse,
      SubSeq(GoodResponse, 1, Len(GoodResponse) - 2),
      SubSeq(GoodResponse, 1, Len(GoodResponse) - 2) \o [i \in 1..RespSize |-> 97] }

HsEvents ==
    { HsEvent("timeout", 0), HsEvent("eagain", 0), HsEvent("error", 0), HsEvent("eof", 0),
      HsEvent("data", 0), HsEvent("data", 2) }

\* what happens at the socket during the response loop
HsScripts == UNION { [1..n -> HsEvents] : n \in 0..MaxHsReads }

\* what the system gives one wibesocket_connect call
ConnectIo(sys, w, rnd, wr, response, script) ==
    [sys |-> sys, w |-> w, rnd |-> rnd, wr |-> wr, response |-> response, script |-> script]

\* "ws://h/" and the configuration without optional headers
PlainUri == <<119, 115, 58, 47, 47, 104, 47>>
PlainConfig ==
    [max_frame_size |-> MaxFrameSize, user_agent |-> NullBytes, origin |-> NullBytes,
     protocol |-> NullBytes]

\* the connect calls followed: every response under every script; every
\* URI, configuration and end of the request's send() with the 101 response
\* arriving whole; every failure of the system before the handshake
ConnectCalls ==
    { [uri |-> PlainUri, cfg |-> PlainConfig,
       io |-> ConnectIo("ok", 1, rnd, "full", response, script)] :
          rnd \in RandomKeys, response \in PeerResponses, script \in HsScripts }
    \cup
    { [uri |-> uri, cfg |-> cfg,
       io |-> ConnectIo("ok", 1, rnd, wr, GoodResponse, <<HsEvent("data", 0)>>)] :
          uri \in ConnectUris, cfg \in ConnectConfigs, rnd \in RandomKeys,
          wr \in HsSendResults }
    \cup
    { [uri |-> PlainUri, cfg |-> PlainConfig,
       io |-> ConnectIo(sys, w, rnd, "full", GoodResponse, <<>>)] :
          sys \in ConnectSys, w \in {0, 1}, rnd \in RandomKeys }

\* no connect call has been made, or its result has been taken
NoConnect == [uri |-> <<>>, io |-> ConnectIo("ok", 0, <<>>, "full", <<>>, <<>>),
              err |-> "OK", h |-> HsOut("NONE", <<>>, <<>>, <<>>), keys |-> NoKeys]

\* f is a frame a server may put on the wire when `open` tells whether a
\* fragmented message is open: whole, unmasked, no reserved bits or opcode, a
\* payload within max_frame_size, control frames final, text valid UTF-8, a
\* CLOSE payload empty or starting with a valid code, fragments in order
PeerFrameValid(f, open) ==
    /\ (f[1] \div 16) % 8 = 0
    /\ f[1] % 16 \in {WS_OPCODE_CONTINUATION, WS_OPCODE_TEXT, WS_OPCODE_BINARY,
                      WS_OPCODE_CLOSE, WS_OPCODE_PING, WS_OPCODE_PONG}
    /\ f[2] <= 125
    /\ f[2] = Len(f) - 2
    /\ f[2] <= MaxFrameSize
    /\ BitSet(f[1] % 16, 8) => BitSet(f[1], 128)
    /\ f[1] % 16 = WS_OPCODE_TEXT => ws_utf8_is_valid(Slice(f, 2, f[2]))
    /\ f[1] % 16 = WS_OPCODE_CLOSE
          => \/ f[2] = 0
             \/ f[2] >= 2 /\ ws_is_valid_close_code(f[3] * 256 + f[4])
    /\ f[1] % 16 = WS_OPCODE_CONTINUATION => open
    /\ f[1] % 16 \in {WS_OPCODE_TEXT, WS_OPCODE_BINARY} => ~open

\* the stream before the peer has sent anything
NoStream == [due |-> <<>>, open |-> FALSE, valid |-> TRUE]

\* the stream once it holds a frame that is not valid: nothing is due
BadStream == [due |-> <<>>, open |-> FALSE, valid |-> FALSE]

\* the stream with the frame f sent behind it
stream_sent(s, f) ==
    IF ~s.valid \/ ~PeerFrameValid(f, s.open) THEN BadStream
    ELSE IF BitSet(f[1] % 16, 8) THEN s
    ELSE [due   |-> Append(s.due, [type |-> f[1] % 16, is_final |-> BitSet(f[1], 128),
                                   payload |-> Slice(f, 2, f[2])]),
          open  |-> ~BitSet(f[1], 128),
          valid |-> TRUE]

\* the stream with one data frame delivered to the caller
stream_delivered(s) == IF s.due # <<>> THEN [s EXCEPT !.due = Tail(@)] ELSE s

\* no connect call has been made
EngineInit ==
    /\ handle = "none"
    /\ conn = NoConn
    /\ sock_in = <<>>
    /\ peer_eof = FALSE
    /\ peer_bytes = 0
    /\ op = "idle"
    /\ ret = "OK"
    /\ st = WS_PARSER_OK
    /\ fr = NoFrame
    /\ msg = NoMsg
    /\ written = <<>>
    /\ pings_in = 0
    /\ pings_answered = 0
    /\ retains = 0
    /\ releases = 1
    /\ proto_seen = FALSE
    /\ close_seen = FALSE
    /\ gram = "idle"
    /\ stream = NoStream
    /\ hs = NoConnect

\* the parser and the validator are not run on their own
NoTest == [kind |-> "none"]

Init ==
    /\ EngineInit
    /\ test = NoTest

\* a call that is not recv: nothing parsed, the message struct untouched
Called(name, r, w) ==
    /\ op' = name
    /\ ret' = r
    /\ st' = WS_PARSER_OK
    /\ fr' = NoFrame
    /\ msg' = NoMsg
    /\ written' = w

\* the bytes the peer has sent behind the blank line that ends its response:
\* the first bytes of its frames
BehindBlankLine(response) ==
    IF strstr(response, 0, CRLF \o CRLF) = NULL THEN <<>>
    ELSE SubSeq(response, strstr(response, 0, CRLF \o CRLF) + 5, Len(response))

\* wibesocket_connect(uri, cfg); it returns the connection or NULL, and ret
\* is the last_error it wrote (lost with the struct when it returns NULL)
Connect(uri, cfg, io) ==
    /\ op = "idle"
    /\ handle = "none"
    /\ \E o \in {wibesocket_connect(uri, cfg, io)} :
           /\ handle' = IF o.c = NoConn THEN "failed" ELSE "live"
           /\ conn' = o.c
           /\ sock_in' = IF o.c = NoConn THEN <<>> ELSE o.h.rest
           /\ hs' = [uri |-> uri, io |-> io, err |-> o.err, h |-> o.h,
                     keys |-> IF o.h.ret = "NONE" THEN NoKeys ELSE keys_of(io.rnd)]
           /\ peer_bytes' = IF o.c = NoConn THEN peer_bytes
                            ELSE Len(BehindBlankLine(io.response))
           /\ stream' = IF o.c = NoConn \/ BehindBlankLine(io.response) = <<>> THEN stream
                        ELSE stream_sent(stream, BehindBlankLine(io.response))
           /\ Called("connect", o.err, o.h.written)
    /\ UNCHANGED <<test, peer_eof, pings_in, pings_answered, retains, releases, proto_seen,
                   close_seen, gram>>

\* the peer puts one more frame on the wire. Once the state has left OPEN the
\* client never reads the socket again (recv returns before the read), so
\* what the peer sends from then on is not followed.
PeerSend(f) ==
    /\ op = "idle"
    /\ handle = "live"
    /\ conn.state = "OPEN"
    /\ ~peer_eof
    /\ peer_bytes + Len(f) <= MaxPeerBytes
    /\ sock_in' = sock_in \o f
    /\ peer_bytes' = peer_bytes + Len(f)
    /\ pings_in' = IF f[1] % 16 = WS_OPCODE_PING THEN pings_in + 1 ELSE pings_in
    /\ stream' = stream_sent(stream, f)
    /\ UNCHANGED <<test, hs, handle, conn, peer_eof, obsVars, pings_answered, retains, releases,
                   proto_seen, close_seen, gram>>

\* as many empty PING frames as do not fit the recv buffer of a connection
FloodFrames == (MaxFrameSize + RecvSlack) \div 2 + 1

PingFlood == [i \in 1..(2 * FloodFrames) |-> IF i % 2 = 1 THEN 137 ELSE 0]

\* the peer sends the PING frames back to back, as the first bytes of the
\* connection
PeerFlood ==
    /\ op = "idle"
    /\ handle = "live"
    /\ conn.state = "OPEN"
    /\ ~peer_eof
    /\ peer_bytes = 0
    /\ sock_in' = sock_in \o PingFlood
    /\ peer_bytes' = peer_bytes + Len(PingFlood)
    /\ pings_in' = pings_in + FloodFrames
    /\ stream' = stream_sent(stream, <<137, 0>>)
    /\ UNCHANGED <<test, hs, handle, conn, peer_eof, obsVars, pings_answered, retains, releases,
                   proto_seen, close_seen, gram>>

\* the peer shuts down its side of the connection. The client sees the end
\* of the stream only behind the last byte sent, so the step is taken when
\* the socket has been read empty.
PeerClose ==
    /\ op = "idle"
    /\ handle = "live"
    /\ conn.state = "OPEN"
    /\ sock_in = <<>>
    /\ ~peer_eof
    /\ peer_eof' = TRUE
    /\ UNCHANGED <<test, hs, handle, conn, sock_in, peer_bytes, pings_in, obsVars, histVars>>

\* recv(fd, recv_buf + recv_size, recv_cap - recv_size, 0) on the non-blocking
\* socket: a zero-length read and end of stream both return 0. Of the bytes
\* the peer has sent, `arrived` have reached the socket by now.
socket_recv(cap, failing, arrived) ==
    IF failing THEN [rd |-> "error", bytes |-> <<>>]
    ELSE IF cap = 0 THEN [rd |-> "zero", bytes |-> <<>>]
    ELSE IF arrived = 0
         THEN [rd |-> IF sock_in = <<>> /\ peer_eof THEN "zero" ELSE "eagain", bytes |-> <<>>]
    ELSE [rd |-> "data", bytes |-> SubSeq(sock_in, 1, Min(arrived, cap))]

\* what the system calls inside one wibesocket_recv give it
recv_io_of(rd, w, mask, wr, oob) ==
    [w |-> w, rd |-> rd.rd, bytes |-> rd.bytes, mask |-> mask, wr |-> wr, oob |-> oob]

recv_draw(w, failing, arrived, mask, wr, oob) ==
    recv_io_of(socket_recv(conn.recv_cap - conn.recv_size, failing, arrived),
               w, mask, wr, oob)

\* the grammar of delivered messages: TEXT/BINARY opens a message unless
\* final, CONTINUATION continues an open one
gram_next(g, m) ==
    IF g = "bad" THEN "bad"
    ELSE IF m.type = WS_OPCODE_CONTINUATION
         THEN IF g = "open" THEN (IF m.is_final THEN "idle" ELSE "open") ELSE "bad"
    ELSE IF m.type \in {WS_OPCODE_TEXT, WS_OPCODE_BINARY}
         THEN IF g = "idle" THEN (IF m.is_final THEN "idle" ELSE "open") ELSE "bad"
    ELSE "bad"

\* wibesocket_recv; w is what epoll_wait returns, failing whether recv() fails
\* with an error other than EAGAIN
Recv(w, failing, arrived, mask, wr, oob) ==
    /\ op = "idle"
    /\ handle = "live"
    /\ arrived <= Len(sock_in)
    \* calls that are not reached draw nothing
    /\ w = 0 => ~failing
    /\ (w = 0 \/ failing) => (arrived = 0 /\ mask = <<0, 0, 0, 0>> /\ wr = "full" /\ oob)
    /\ \E o \in {wibesocket_recv(conn, recv_draw(w, failing, arrived, mask, wr, oob))} :
           /\ conn' = o.c
           /\ sock_in' = SubSeq(sock_in, o.nread + 1, Len(sock_in))
           /\ op' = "recv"
           /\ ret' = o.ret
           /\ st' = o.st
           /\ fr' = o.fr
           /\ msg' = o.msg
           /\ written' = o.written
           /\ pings_answered' = IF o.fr.type = WS_OPCODE_PING
                                THEN pings_answered
                                     + Len(SelectSeq(o.written, LAMBDA x : x.wr > 0))
                                ELSE pings_answered
           /\ retains' = IF o.ret = "OK" THEN 0 ELSE retains
           /\ releases' = IF o.ret = "OK" THEN 0 ELSE releases
           /\ proto_seen' = (proto_seen \/ o.ret = "PROTOCOL")
           /\ close_seen' = (close_seen \/ o.fr.type = WS_OPCODE_CLOSE)
           /\ gram' = IF o.ret = "OK" THEN gram_next(gram, o.msg) ELSE gram
           /\ stream' = IF o.ret = "OK" /\ ~BitSet(o.fr.type, 8)
                        THEN stream_delivered(stream)
                        ELSE stream
    /\ UNCHANGED <<test, hs, handle, peer_eof, peer_bytes, pings_in>>

SendText(data, mask, wr) ==
    /\ op = "idle"
    /\ handle = "live"
    /\ \E s \in {wibesocket_send_text(conn, data, mask, wr)} :
           /\ conn' = s.c
           /\ Called("send_text", s.ret, s.written)
    /\ UNCHANGED <<test, hs, handle, envVars, histVars>>

SendBinary(data, mask, wr) ==
    /\ op = "idle"
    /\ handle = "live"
    /\ \E s \in {wibesocket_send_binary(conn, data, mask, wr)} :
           /\ conn' = s.c
           /\ Called("send_binary", s.ret, s.written)
    /\ UNCHANGED <<test, hs, handle, envVars, histVars>>

SendPing(data, mask, wr) ==
    /\ op = "idle"
    /\ handle = "live"
    /\ \E s \in {wibesocket_send_ping(conn, data, mask, wr)} :
           /\ conn' = s.c
           /\ Called("send_ping", s.ret, s.written)
    /\ UNCHANGED <<test, hs, handle, envVars, histVars>>

SendClose(code, reason, mask, wr) ==
    /\ op = "idle"
    /\ handle = "live"
    /\ \E s \in {wibesocket_send_close(conn, code, reason, mask, wr)} :
           /\ conn' = s.c
           /\ Called("send_close", s.ret, s.written)
    /\ UNCHANGED <<test, hs, handle, envVars, histVars>>

Retain ==
    /\ op = "idle"
    /\ handle = "live"
    /\ releases <= retains => retains < MaxRetain
    /\ conn' = wibesocket_retain_payload(conn)
    /\ retains' = IF releases <= retains THEN retains + 1 ELSE retains
    /\ Called("retain", "OK", <<>>)
    /\ UNCHANGED <<test, hs, handle, envVars, pings_answered, releases, proto_seen, close_seen, gram,
                   stream>>

Release ==
    /\ op = "idle"
    /\ handle = "live"
    /\ conn' = wibesocket_release_payload(conn)
    /\ releases' = IF releases <= retains THEN releases + 1 ELSE releases
    /\ Called("release", "OK", <<>>)
    /\ UNCHANGED <<test, hs, handle, envVars, pings_answered, retains, proto_seen, close_seen, gram,
                   stream>>

\* wibesocket_close: closes the descriptors and frees the buffer and the struct
Close ==
    /\ op = "idle"
    /\ handle = "live"
    /\ handle' = "freed"
    /\ conn' = NoConn
    /\ Called("close", "OK", <<>>)
    /\ UNCHANGED <<test, hs, envVars, histVars>>

\* the caller has taken the result of the call; the next call can start
Return ==
    /\ op # "idle"
    /\ Called("idle", "OK", <<>>)
    /\ retains' = IF releases <= retains THEN retains ELSE 0
    /\ releases' = IF releases <= retains THEN releases ELSE 1
    /\ hs' = NoConnect
    /\ UNCHANGED <<test, handle, conn, envVars, pings_answered, proto_seen, close_seen, gram,
                   stream>>

Next ==
    \/ /\ handle = "none"
       /\ \E call \in ConnectCalls : Connect(call.uri, call.cfg, call.io)
    \/ \E f \in PeerFrames : PeerSend(f)
    \/ PeerFlood
    \/ PeerClose
    \/ \E w \in {0, 1}, failing \in BOOLEAN, arrived \in 0..Len(sock_in),
          mask \in MaskKeys, wr \in SendResults, oob \in BOOLEAN :
          Recv(w, failing, arrived, mask, wr, oob)
    \/ \E data \in UserPayloads, mask \in UserMaskKeys, wr \in SendResults :
          SendText(data, mask, wr)
    \/ \E data \in UserPayloads, mask \in UserMaskKeys, wr \in SendResults :
          SendBinary(data, mask, wr)
    \/ \E data \in UserPayloads, mask \in UserMaskKeys, wr \in SendResults :
          SendPing(data, mask, wr)
    \/ \E a \in UserCloseArgs, mask \in UserMaskKeys, wr \in SendResults :
          SendClose(a.code, a.reason, mask, wr)
    \* the long reason is followed while the peer has sent nothing
    \/ /\ peer_bytes = 0
       /\ \E a \in LongCloseArgs, mask \in UserMaskKeys, wr \in SendResults :
              SendClose(a.code, a.reason, mask, wr)
    \/ Retain
    \/ Release
    \/ Close
    \/ Return

Spec == Init /\ [][Next]_vars
(***************************************************************************)
(* Reading a written frame back: the short form the client's sends use    *)
(* here (masked, 7-bit length).                                            *)
(***************************************************************************)
WrittenOpcode(b) == b[1] % 16

WrittenFin(b) == BitSet(b[1], 128)

WrittenMasked(b) == BitSet(b[2], 128)

WrittenLen(b) == b[2] % 128

WrittenPayload(b) ==
    [i \in 1..(Len(b) - 6) |-> Xor8(b[6 + i], b[2 + (((i - 1) % 4) + 1)])]

\* b is one whole masked FIN frame of the given opcode and payload
IsWrittenFrame(b, opcode, payload) ==
    /\ Len(b) = 6 + Len(payload)
    /\ WrittenFin(b)
    /\ WrittenOpcode(b) = opcode
    /\ WrittenMasked(b)
    /\ WrittenLen(b) = Len(payload)
    /\ WrittenPayload(b) = payload

SendOps == {"send_text", "send_binary", "send_ping", "send_close"}

\* the caller still holds a reference of the payload the last OK recv gave it
Holding == releases <= retains

\* the recv buffer and the pinned slice in it are what they were
BufferKept ==
    /\ conn'.recv_buf = conn.recv_buf
    /\ conn'.recv_size = conn.recv_size
    /\ conn'.pinned_payload = conn.pinned_payload
    /\ conn'.pinned_len = conn.pinned_len

\* the consumed prefix is gone, the rest sits at offset 0
BufferCompacted ==
    /\ conn'.recv_buf = Slice(conn.recv_buf, conn.pending_consume,
                              conn.recv_size - conn.pending_consume)
    /\ conn'.recv_size = conn.recv_size - conn.pending_consume
    /\ conn'.pending_consume = 0
    /\ conn'.pinned_refcnt = 0

(***************************************************************************)
(* C1                                                                      *)
(***************************************************************************)
\* C1: while a payload is pinned (pinned_refcnt > 0) every wibesocket_recv
\* returns not_ready, whatever epoll_wait and the socket would give, returns
\* no frame, and leaves the connection as it was.
C1_PinnedRecvNotReady ==
    [][(op' = "recv" /\ conn.pinned_refcnt > 0)
        => (ret' = "NOT_READY" /\ fr' = NoFrame /\ msg' = NoMsg /\ written' = <<>>
            /\ conn' = conn /\ sock_in' = sock_in)]_vars

\* a recv was refused on an open, pinned connection with bytes waiting
C1_Witness ==
    /\ op = "recv"
    /\ ret = "NOT_READY"
    /\ conn.state = "OPEN"
    /\ conn.pinned_refcnt > 0
    /\ sock_in # <<>>

(***************************************************************************)
(* C2                                                                      *)
(***************************************************************************)
\* C2: a step that starts and ends with the payload pinned on the live
\* connection (recv, the sends, retain, a release that leaves the count above
\* zero) changes neither the recv buffer's bytes nor recv_size nor the place
\* and length of the pinned slice.
C2_PinnedSliceStable ==
    [][(conn.pinned_refcnt > 0 /\ conn'.pinned_refcnt > 0 /\ handle' = "live")
        => BufferKept]_vars

\* a release has left the count above zero with a pinned payload of one byte
\* in the buffer
C2_Witness ==
    /\ op = "release"
    /\ conn.pinned_refcnt > 0
    /\ conn.pinned_len > 0
    /\ conn.pending_consume > 0

(***************************************************************************)
(* C3                                                                      *)
(***************************************************************************)
\* C3: after a recv that returned OK and k retain_payload calls, the
\* (k+1)-th release_payload compacts the recv buffer (consumed prefix
\* removed, rest at offset 0, recv_size reduced); no call before it changes
\* the buffer, and every recv before it returns not_ready.
C3_CompactAtLastRelease ==
    [][(Holding /\ op' # "idle" /\ handle' = "live")
        => IF op' = "release" /\ releases' = retains' + 1
           THEN BufferCompacted
           ELSE /\ BufferKept
                /\ conn'.pinned_refcnt > 0
                /\ op' = "recv" => ret' = "NOT_READY"]_vars

\* the second release after one retain has just compacted a buffer that held
\* a delivered frame
C3_Witness ==
    /\ op = "release"
    /\ retains = 1
    /\ releases = 2
    /\ conn.pinned_refcnt = 0
    /\ conn.pending_consume = 0
    /\ gram = "open"

(***************************************************************************)
(* C4                                                                      *)
(***************************************************************************)
\* C4 as the specification states it: when the parser reports
\* ERROR_PROTOCOL or ERROR_TOO_LARGE inside recv, recv returns protocol,
\* records protocol as the last error and the state becomes ERROR.
C4_ParserErrorSetsError ==
    (op = "recv" /\ st < 0)
        => (ret = "PROTOCOL" /\ wibesocket_get_error(conn) = "PROTOCOL"
            /\ wibesocket_get_state(conn) = "ERROR")

(***************************************************************************)
(* C5                                                                      *)
(***************************************************************************)
\* C5 as the specification states it: once a recv has returned protocol, no
\* later recv returns OK and no later send_text/send_binary/send_ping writes
\* to the socket.
C5_ProtocolTerminal ==
    proto_seen
        => /\ ~(op = "recv" /\ ret = "OK")
           /\ ~(op \in {"send_text", "send_binary", "send_ping"} /\ written # <<>>)

(***************************************************************************)
(* C6                                                                      *)
(***************************************************************************)
\* C6 as the specification states it: the frame recv writes for a parsed
\* PING with payload P is a masked FIN PONG (opcode 0xA) with payload P.
C6_PingAnsweredByPong ==
    (op = "recv" /\ fr.type = WS_OPCODE_PING)
        => /\ Len(written) = 1
           /\ IsWrittenFrame(written[1].buf, WS_OPCODE_PONG,
                             Slice(conn.recv_buf, fr.payload, fr.payload_len))

(***************************************************************************)
(* C7                                                                      *)
(***************************************************************************)
\* C7 as the specification states it: the engine advances past a PING it
\* has answered, so recv never writes more replies than PINGs were received.
C7_PingAnsweredOnce == pings_answered <= pings_in

(***************************************************************************)
(* C8                                                                      *)
(***************************************************************************)
\* C8 as the specification states it: a parsed PONG is discarded: recv
\* returns not_ready, fills no message, pins nothing and advances past it.
C8_PongDiscarded ==
    (op = "recv" /\ fr.type = WS_OPCODE_PONG)
        => (ret = "NOT_READY" /\ msg = NoMsg /\ conn.pinned_refcnt = 0)

(***************************************************************************)
(* C9                                                                      *)
(***************************************************************************)
\* C9 as the specification states it: the messages recv returns with OK
\* follow the grammar TEXT/BINARY then CONTINUATIONs up to the final one, and
\* no control frame is returned as a message.
C9_MessageGrammar ==
    /\ gram # "bad"
    /\ (op = "recv" /\ ret = "OK")
          => fr.type \in {WS_OPCODE_CONTINUATION, WS_OPCODE_TEXT, WS_OPCODE_BINARY}

(***************************************************************************)
(* C10                                                                     *)
(***************************************************************************)
\* C10: a recv that parses a CLOSE frame hands the socket exactly one frame,
\* a masked FIN CLOSE with code 1000 and no reason, leaves the state CLOSED
\* and returns closed; every recv and send after it returns an error and
\* writes nothing.
C10_CloseEchoed ==
    [][/\ (op' = "recv" /\ fr'.type = WS_OPCODE_CLOSE)
            => /\ Len(written') = 1
               /\ IsWrittenFrame(written'[1].buf, WS_OPCODE_CLOSE, <<3, 232>>)
               /\ wibesocket_get_state(conn') = "CLOSED"
               /\ ret' = "CLOSED"
       /\ (close_seen /\ handle' = "live" /\ op' \in SendOps \cup {"recv"})
            => /\ ret' \notin {"OK"}
               /\ written' = <<>>
               /\ wibesocket_get_state(conn') = "CLOSED"]_vars

\* after a CLOSE was parsed and echoed, a send was refused
C10_Witness ==
    /\ close_seen
    /\ op \in SendOps
    /\ ret = "NOT_READY"
    /\ written = <<>>
    /\ conn.state = "CLOSED"

(***************************************************************************)
(* C11                                                                     *)
(***************************************************************************)
\* the (type, is_final, payload bytes) the caller reads from its message
\* struct after the step
Delivered ==
    [type     |-> msg'.type,
     is_final |-> msg'.is_final,
     payload  |-> Slice(conn'.recv_buf, msg'.payload, msg'.payload_len)]

\* C11: however the peer's stream of valid frames is cut into socket reads,
\* every frame wibesocket_recv returns with OK is the next data frame of the
\* stream, with its type, its final flag and its payload bytes. (A PONG that
\* recv returns with OK is C8's matter and is left aside here: the frames
\* looked at are those the parser typed as data.)
C11_DeliveredInStreamOrder ==
    [][(op' = "recv" /\ ret' = "OK" /\ stream.valid /\ ~BitSet(fr'.type, 8))
        => (stream.due # <<>> /\ Delivered = Head(stream.due))]_vars


(***************************************************************************)
(* C12                                                                     *)
(***************************************************************************)
\* the place of a state on the way CONNECTING -> OPEN -> CLOSING -> CLOSED
StateRank(s) ==
    IF s = "CONNECTING" THEN 1 ELSE IF s = "OPEN" THEN 2 ELSE IF s = "CLOSING" THEN 3
    ELSE IF s = "CLOSED" THEN 4 ELSE 0

\* the state moves forward from s to t, or stays
Forward(s, t) ==
    \/ s = t
    \/ t = "ERROR" /\ s # "CLOSED"
    \/ /\ StateRank(s) > 0
       /\ StateRank(s) < StateRank(t)

\* C12: whatever the caller calls on a connection (send_*, send_close, recv,
\* retain, release), its state only moves forward along CONNECTING -> OPEN ->
\* CLOSING -> CLOSED or to ERROR: from CLOSING, CLOSED or ERROR it never comes
\* back to OPEN or CONNECTING, and from CLOSED it never changes. A connection
\* that wibesocket_connect returns is OPEN.
C12_StateMonotone ==
    [][/\ (handle = "live" /\ handle' = "live")
           => /\ Forward(wibesocket_get_state(conn), wibesocket_get_state(conn'))
              /\ wibesocket_get_state(conn) \in {"CLOSING", "CLOSED", "ERROR"}
                    => wibesocket_get_state(conn') \notin {"OPEN", "CONNECTING"}
              /\ wibesocket_get_state(conn) = "CLOSED"
                    => wibesocket_get_state(conn') = "CLOSED"
       /\ (handle = "none" /\ handle' = "live") => wibesocket_get_state(conn') = "OPEN"]_vars

\* send_close has been called on a connection that was CLOSED, after the
\* caller's own send_close had made it CLOSING or a recv had closed it
C12_Witness ==
    /\ handle = "live"
    /\ op = "send_close"
    /\ ret = "NOT_READY"
    /\ conn.state = "CLOSED"

\* a recv has been called on a connection the caller's send_close left CLOSING
C12_WitnessClosing ==
    /\ handle = "live"
    /\ op = "recv"
    /\ conn.state = "CLOSING"


(***************************************************************************)
(* C13                                                                     *)
(***************************************************************************)
\* the part of the peer's response that fits the scratch buffer of
\* do_handshake
Fitting(response) == SubSeq(response, 1, Min(Len(response), RespSize - 1))

\* the response in the scratch buffer is whole: it has its blank line, and
\* it is what the peer sent
ReceivedInFull(resp, response) ==
    /\ strstr(CStr(resp), 0, CRLF \o CRLF) # NULL
    /\ Len(resp) <= Len(response)
    /\ resp = SubSeq(response, 1, Len(resp))

\* C13: a connection is OPEN only behind a handshake whose response was
\* received in full and passed ws_validate_handshake_response; when the
\* wait for the connect times out, the socket setup or the socket fails, the
\* response has no blank line within the scratch buffer, or the response
\* does not validate, wibesocket_connect returns NULL and there is no OPEN
\* connection.
C13_OpenOnlyValidated ==
    /\ wibesocket_get_state(conn) = "OPEN" => handle = "live"
    /\ handle = "failed" => conn = NoConn
    /\ op = "connect"
          => /\ handle = "live"
                   => /\ wibesocket_get_state(conn) = "OPEN"
                      /\ hs.io.sys = "ok"
                      /\ hs.io.w > 0
                      /\ ReceivedInFull(hs.h.resp, hs.io.response)
                      /\ ws_validate_handshake_response(CStr(hs.h.resp),
                                                        hs.keys.expected_accept) = 0
             /\ \/ hs.io.w <= 0
                \/ hs.io.sys # "ok"
                \/ hs.err \in {"TIMEOUT", "NETWORK", "HANDSHAKE"}
                \/ strstr(CStr(Fitting(hs.io.response)), 0, CRLF \o CRLF) = NULL
                \/ ws_validate_handshake_response(CStr(Fitting(hs.io.response)),
                                                  keys_of(hs.io.rnd).expected_accept) # 0
                => /\ handle = "failed"
                   /\ wibesocket_get_state(conn) # "OPEN"

\* a connection has been opened by a response that arrived in two reads
C13_Witness ==
    /\ op = "connect"
    /\ handle = "live"
    /\ conn.state = "OPEN"
    /\ hs.io.script = <<HsEvent("data", 2), HsEvent("data", 0)>>
    /\ hs.h.resp = GoodResponse

\* connects have failed: on a response with a wrong accept value, on a
\* response that fills the scratch buffer, on a timeout of the connect wait
C13_WitnessRefused ==
    /\ op = "connect"
    /\ handle = "failed"
    /\ hs.err = "HANDSHAKE"
    /\ hs.h.resp = WrongAcceptResponse

C13_WitnessOverflow ==
    /\ op = "connect"
    /\ handle = "failed"
    /\ hs.err = "HANDSHAKE"
    /\ Len(hs.h.resp) = RespSize - 1

C13_WitnessTimeout ==
    /\ op = "connect"
    /\ handle = "failed"
    /\ hs.err = "TIMEOUT"
    /\ hs.io.w = 0

(***************************************************************************)
(* C14. send_text, send_binary and send_ping write to the socket only when *)
(* the connection is OPEN; in any other state they return an error, write  *)
(* nothing and leave the connection as it was.                             *)
(***************************************************************************)
DataSendOps == {"send_text", "send_binary", "send_ping"}

\* C14: a data or ping send that writes started in OPEN, and one that started
\* in another state returns a non-OK error, writes nothing and changes nothing
C14_SendOnlyInOpen ==
    [][op' \in DataSendOps
        => /\ written' # <<>> => wibesocket_get_state(conn) = "OPEN"
           /\ wibesocket_get_state(conn) # "OPEN"
                  => /\ ret' # "OK"
                     /\ written' = <<>>
                     /\ conn' = conn]_vars

\* send_ping refused after the client has sent its CLOSE
C14_Witness ==
    /\ handle = "live"
    /\ op = "send_ping"
    /\ conn.state = "CLOSING"
    /\ ret = "NOT_READY"
    /\ written = <<>>

\* send_text refused after the peer has closed
C14_WitnessClosed ==
    /\ handle = "live"
    /\ op = "send_text"
    /\ conn.state = "CLOSED"
    /\ ret = "NOT_READY"

\* send_binary writing its frame in OPEN
C14_WitnessOpen ==
    /\ handle = "live"
    /\ op = "send_binary"
    /\ conn.state = "OPEN"
    /\ ret = "OK"
    /\ Len(written) = 1
    /\ WrittenOpcode(written[1].buf) = WS_OPCODE_BINARY

(***************************************************************************)
(* C15. wibesocket_close on an OPEN or CLOSING connection writes a CLOSE   *)
(* frame before the socket is shut down; on a CLOSED one it writes nothing. *)
(***************************************************************************)
\* C15: a close call that starts in OPEN or CLOSING writes one CLOSE frame,
\* and one that starts in CLOSED writes nothing
C15_CloseWritesCloseFrame ==
    [][op' = "close"
        => /\ wibesocket_get_state(conn) \in {"OPEN", "CLOSING"}
                  => /\ Len(written') = 1
                     /\ WrittenOpcode(written'[1].buf) = WS_OPCODE_CLOSE
           /\ wibesocket_get_state(conn) = "CLOSED" => written' = <<>>]_vars

(***************************************************************************)
(* Reading any written frame back, whatever its length form.               *)
(***************************************************************************)
\* the bytes of the extended length field
WrittenExt(b) == IF WrittenLen(b) = 126 THEN 2 ELSE IF WrittenLen(b) = 127 THEN 8 ELSE 0

\* the unmasked payload of a masked frame
WrittenBody(b) ==
    [i \in 1..(Len(b) - 6 - WrittenExt(b)) |->
        Xor8(b[6 + WrittenExt(b) + i], b[2 + WrittenExt(b) + (((i - 1) % 4) + 1)])]

\* the close code a CLOSE payload starts with
WrittenCloseCode(b) == (WrittenBody(b)[1] * 256) + WrittenBody(b)[2]

\* the writes of the last call that put a CLOSE frame on the wire whole (the
\* write of connect is the HTTP request, not a frame)
CloseWrites ==
    { i \in 1..Len(written) :
        /\ op # "connect"
        /\ written[i].wr = Len(written[i].buf)
        /\ WrittenOpcode(written[i].buf) = WS_OPCODE_CLOSE }

(***************************************************************************)
(* C16. Every CLOSE frame written has a payload of at most 125 bytes, code *)
(* included, whatever the length of the reason passed to send_close: the   *)
(* frame uses the 7-bit length form.                                       *)
(***************************************************************************)
\* C16: every CLOSE frame written carries its length in the 7-bit field
\* (at most 125) and is that long
C16_ClosePayloadShort ==
    \A i \in CloseWrites :
        /\ WrittenLen(written[i].buf) <= 125
        /\ Len(written[i].buf) = 6 + WrittenLen(written[i].buf)

(***************************************************************************)
(* C17. No CLOSE frame with code 1005 or 1006 is written: send_close with  *)
(* such a code on an OPEN connection writes no frame.                      *)
(***************************************************************************)
\* C17: no CLOSE frame written starts with the code 1005 or 1006
C17_NoReservedCloseCode ==
    \A i \in CloseWrites :
        Len(WrittenBody(written[i].buf)) >= 2
            => WrittenCloseCode(written[i].buf) \notin {1005, 1006}

(***************************************************************************)
(* C18. A send returns OK only if its one socket write took the whole      *)
(* frame; a short write or EAGAIN gives a non-OK error.                    *)
(***************************************************************************)
\* C18: a send call that returns OK has made one write that took the whole
\* frame, and one whose write took less or failed has not returned OK
C18_OkOnlyWholeWrite ==
    op \in SendOps
        => /\ ret = "OK" => /\ Len(written) = 1
                            /\ written[1].wr = Len(written[1].buf)
           /\ (Len(written) = 1 /\ written[1].wr < Len(written[1].buf)) => ret # "OK"

(***************************************************************************)
(* C19. wibesocket_get_error returns the error of the most recent call on  *)
(* the connection that did not return OK, and OK only if none has failed.  *)
(***************************************************************************)
\* C19: when a send or recv call has just returned an error, that error is
\* what wibesocket_get_error returns
C19_LastErrorIsLatestFailure ==
    (handle = "live" /\ op \in SendOps \cup {"recv"} /\ ret # "OK")
        => wibesocket_get_error(conn) = ret

(***************************************************************************)
(* C20. A recv that returns timeout leaves the connection as it was: the   *)
(* state stays OPEN, the buffer, recv_size, pending_consume, the pin and   *)
(* the parser are untouched, so a later recv can return the next frame.    *)
(***************************************************************************)
\* C20: a recv that returns TIMEOUT started in OPEN, changed no field of the
\* connection and took no byte from the socket
C20_TimeoutChangesNothing ==
    [][(op' = "recv" /\ ret' = "TIMEOUT")
        => /\ wibesocket_get_state(conn) = "OPEN"
           /\ conn' = conn
           /\ sock_in' = sock_in]_vars

\* a recv timed out between the two halves of a frame: the first half is
\* buffered, the parser is inside the frame, the second half is on its way
C20_Witness ==
    /\ op = "recv"
    /\ ret = "TIMEOUT"
    /\ conn.state = "OPEN"
    /\ conn.recv_size > 0
    /\ conn.parser.hdr_have > 0
    /\ sock_in # <<>>

\* a recv timed out with a whole frame waiting in the socket
C20_WitnessPending ==
    /\ op = "recv"
    /\ ret = "TIMEOUT"
    /\ conn.state = "OPEN"
    /\ conn.recv_size = 0
    /\ sock_in = <<129, 1, 65>>

(***************************************************************************)
(* The parser on its own: one ws_parser_t, initialised once, is fed a byte *)
(* stream chunk by chunk; after FRAME the caller feeds what was not        *)
(* consumed again, together with the bytes that follow.                    *)
(***************************************************************************)
\* how many frames a stream of several frames is made of
MaxFrames == 2

\* how many more ws_parser_feed calls are followed once one has returned an
\* error
MaxAfterError == 1

\* every chunk boundary is followed within this many leading bytes of a
\* stream; behind them a chunk is all that is left, or all but the last byte
FineChunks == 16

\* a frame on the wire: its header bytes and the bytes behind them
Wire(hdr, payload) == [hdr |-> hdr, payload |-> payload]

\* the bytes of a sequence of frames
RECURSIVE Flatten(_)
Flatten(frames) ==
    IF frames = <<>> THEN <<>>
    ELSE Head(frames).hdr \o Head(frames).payload \o Flatten(Tail(frames))

\* no ws_build_frame call made the stream
NoBuild == [fin |-> FALSE, opcode |-> NULL, payload |-> <<>>, mask_key |-> NullBytes]

\* a stream about to be fed to a parser that ws_parser_init has just set up
\* with max_frame_size: the bytes consumed so far (pos), the results
\* returned other than NEED_MORE (out), and the calls made since the first
\* error (after)
ParserTest(frames, max_frame_size, built) ==
    [kind           |-> "feed",
     frames         |-> frames,
     data           |-> Flatten(frames),
     max_frame_size |-> max_frame_size,
     built          |-> built,
     p              |-> ws_parser_init(max_frame_size),
     pos            |-> 0,
     out            |-> <<>>,
     after          |-> 0]

\* what the caller sees of one ws_parser_feed call on chunk, which starts at
\* offset pos of the stream: the status, the fields of out_frame, the bytes
\* behind its payload pointer, and the stream offset behind the bytes consumed
FeedResult(r, chunk, pos) ==
    [st          |-> r.st,
     type        |-> r.frame.type,
     is_final    |-> r.frame.is_final,
     payload_len |-> r.frame.payload_len,
     payload     |-> IF r.st = WS_PARSER_FRAME
                     THEN Slice(chunk, r.frame.payload, r.frame.payload_len)
                     ELSE <<>>,
     at          |-> pos + r.consumed]

\* a call has returned an error
Failed(t) == \E i \in 1..Len(t.out) : t.out[i].st < 0

\* the test after ws_parser_feed has returned r on chunk
test_fed(t, chunk, r) ==
    [t EXCEPT !.p     = r.p,
              !.pos   = t.pos + r.consumed,
              !.out   = IF r.st = WS_PARSER_NEED_MORE THEN t.out
                        ELSE Append(t.out, FeedResult(r, chunk, t.pos)),
              !.after = IF Failed(t) THEN t.after + 1 ELSE t.after]

\* the chunk lengths followed from offset pos of a stream of len bytes
ChunkSizes(pos, len) ==
    (1..Min(len - pos, FineChunks - pos)) \cup ({len - pos - 1, len - pos} \ {0 - 1, 0})

\* the results of feeding data[pos ..] whole: one call per frame, the bytes
\* not consumed fed again after each FRAME, up to the first result that is
\* not FRAME
RECURSIVE whole_from(_, _, _, _)
RECURSIVE whole_fed(_, _, _, _)
whole_fed(r, data, pos, acc) ==
    IF r.st = WS_PARSER_FRAME
    THEN whole_from(r.p, data, pos + r.consumed,
                    Append(acc, FeedResult(r, Slice(data, pos, Len(data) - pos), pos)))
    ELSE IF r.st < 0
    THEN Append(acc, FeedResult(r, Slice(data, pos, Len(data) - pos), pos))
    ELSE acc

whole_from(p, data, pos, acc) ==
    IF pos >= Len(data) /\ Len(acc) >= 0 THEN acc
    ELSE whole_fed(ws_parser_feed(p, Slice(data, pos, Len(data) - pos), TRUE), data, pos, acc)

\* the results of feeding the whole stream at once
Whole(data, max_frame_size) == whole_from(ws_parser_init(max_frame_size), data, 0, <<>>)
\* L bytes of zeros
Zeros(L) == [i \in 1..L |-> 0]

\* the data and control frames the streams of several frames are made of
StreamFrames ==
    { Wire(<<129, 1>>, <<65>>),         \* TEXT, FIN, "A"
      Wire(<<1, 1>>, <<65>>),           \* TEXT, not final, "A"
      Wire(<<129, 2>>, <<255, 65>>),    \* TEXT, FIN, invalid UTF-8
      Wire(<<130, 1>>, <<255>>),        \* BINARY, FIN, 0xFF
      Wire(<<2, 0>>, <<>>),             \* BINARY, not final, empty
      Wire(<<0, 1>>, <<65>>),           \* CONTINUATION, not final, "A"
      Wire(<<128, 2>>, <<255, 65>>),    \* CONTINUATION, FIN, invalid UTF-8
      Wire(<<128, 1>>, <<65>>),         \* CONTINUATION, FIN, "A"
      Wire(<<137, 0>>, <<>>) }          \* PING, FIN, empty

\* the streams of up to MaxFrames of those frames
FrameStreams == UNION { [1..n -> StreamFrames] : n \in 1..MaxFrames }

\* the codes of the CLOSE frames fed
CloseCodes == {999, 1000, 1001, 1004, 1005, 1006, 1011, 1012, 1015, 2999, 3000, 4999, 5000}

\* the reasons behind them: none, "A", the invalid byte 0xFF, two bytes that
\* read as the code 1000 (0x03 0xE8, not valid UTF-8), and U+00E9
CloseReasons == { <<>>, <<65>>, <<255>>, <<3, 232>>, <<195, 169>> }

\* a CLOSE frame with the payload given
CloseWire(payload) == Wire(<<136, Len(payload)>>, payload)

\* the CLOSE frames fed: no payload, one byte, and every code with every reason
CloseStreams ==
    { <<CloseWire(<<>>)>>, <<CloseWire(<<3>>)>> }
    \cup { <<CloseWire(<<code \div 256, code % 256>> \o reason)>> :
              code \in CloseCodes, reason \in CloseReasons }

\* every first byte with a second byte announcing no payload, one byte, a
\* 16-bit length, or a mask, and two bytes behind them
HeaderStreams ==
    { <<Wire(<<b0, b1>>, <<0, 0>>)>> : b0 \in 0..255, b1 \in {0, 1, 126, 129} }

\* the PING above followed by a header with RSV1 set, and by one with the
\* reserved opcode 0xB
LaterHeaderStreams ==
    { <<Wire(<<137, 0>>, <<>>), Wire(<<b0, 0>>, <<0, 0>>)>> : b0 \in {193, 139} }

\* the length fields of the control frames fed: 0, 125, 126 and 65535 in the
\* 16-bit form, 126 in the 64-bit form, a 64-bit length with the high bit
\* set, and 126 in the 16-bit form behind the mask bit
ControlLengths ==
    { <<0>>, <<125>>, <<126, 0, 126>>, <<126, 255, 255>>,
      <<127, 0, 0, 0, 0, 0, 0, 0, 126>>, <<127, 128, 0, 0, 0, 0, 0, 0, 0>>,
      <<254, 0, 126, 1, 2, 3, 4>> }

\* CLOSE, PING and PONG headers, final and not, with those lengths; the
\* payload is 125 zeros where 125 are announced, two bytes otherwise
ControlStreams ==
    { <<Wire(<<b0>> \o len, IF len = <<125>> THEN Zeros(125) ELSE <<3, 232>>)>> :
         b0 \in {8, 9, 10, 136, 137, 138}, len \in ControlLengths }

\* the header of a final BINARY frame of L bytes in the shortest length form
BinaryHeader(L) ==
    IF L <= 125 THEN <<130, L>>
    ELSE IF L <= 65535 THEN <<130, 126>> \o be_bytes(L, 2)
    ELSE <<130, 127>> \o be_bytes(L, 8)

\* the payload lengths at the borders of the three length forms
BorderLengths == {0, 125, 126, 127, 65535, 65536}

\* what ws_parser_init makes of max_frame_size
Limit(max_frame_size) == IF max_frame_size # 0 THEN max_frame_size ELSE 1048576

\* a final BINARY frame of each border length, with the parser's limit one
\* below the length, at it, and at its default; the payload is there when
\* the limit allows the frame, two bytes of it otherwise
LengthTests ==
    { [frames |-> <<Wire(BinaryHeader(L),
                         IF L <= Limit(m) THEN Zeros(L) ELSE <<0, 0>>)>>,
       max_frame_size |-> m] :
          L \in BorderLengths, m \in {125, 126, 65534, 65535, 65536, 0} }
    \cup
    { [frames |-> <<Wire(<<130, 127, 128, 0, 0, 0, 0, 0, 0, 0>>, <<0, 0>>)>>,
       max_frame_size |-> 0] }

\* the payloads ws_build_frame is given with each opcode: valid UTF-8 for
\* TEXT, a valid code and reason for CLOSE, at most 125 bytes for the
\* control frames, and up to 126 bytes otherwise
BuildPayloads(opcode) ==
    IF opcode = WS_OPCODE_TEXT THEN { <<>>, <<65>>, <<195, 169>> }
    ELSE IF opcode = WS_OPCODE_CLOSE THEN { <<>>, <<3, 232>>, <<3, 232, 65>> }
    ELSE IF opcode \in {WS_OPCODE_PING, WS_OPCODE_PONG} THEN { <<>>, <<65>>, Zeros(125) }
    ELSE { <<>>, <<255>>, Zeros(126) }

\* the mask keys ws_build_frame is given: NULL, zeros, and a key
BuildMasks == { NullBytes, <<0, 0, 0, 0>>, <<55, 250, 33, 61>> }

\* the ws_build_frame calls whose output is fed to a parser
Builds ==
    { [fin |-> fin, opcode |-> opcode, payload |-> payload, mask_key |-> mask_key] :
         fin \in BOOLEAN,
         opcode \in {WS_OPCODE_CONTINUATION, WS_OPCODE_TEXT, WS_OPCODE_BINARY,
                     WS_OPCODE_CLOSE, WS_OPCODE_PING, WS_OPCODE_PONG},
         payload \in UNION { BuildPayloads(o) : o \in 0..10 },
         mask_key \in BuildMasks }

\* the frame ws_build_frame writes for b into a buffer of 256 bytes
Built(b) == ws_build_frame(256, b.fin, b.opcode, b.mask_key, b.payload)

\* the streams fed, each to a parser of its own
ParserTests ==
    { ParserTest(frames, MaxFrameSize, NoBuild) :
         frames \in FrameStreams \cup HeaderStreams \cup LaterHeaderStreams }
    \cup { ParserTest(frames, 0, NoBuild) : frames \in CloseStreams }
    \cup { ParserTest(frames, m, NoBuild) : frames \in ControlStreams, m \in {MaxFrameSize, 0} }
    \cup { ParserTest(t.frames, t.max_frame_size, NoBuild) : t \in LengthTests }
    \cup { ParserTest(<<Wire(Built(b), <<>>)>>, 0, b) :
              b \in { x \in Builds : x.payload \in BuildPayloads(x.opcode) } }

ParserInit ==
    /\ EngineInit
    /\ test \in ParserTests

\* one ws_parser_feed call on the next n bytes of the stream; oob is the
\* verdict of the close-payload checks where they read outside the chunk.
\* The output of ws_build_frame is fed in one call.
Feed(n, oob) ==
    /\ test.kind = "feed"
    /\ test.after < MaxAfterError
    /\ n \in ChunkSizes(test.pos, Len(test.data))
    /\ test.built # NoBuild => n = Len(test.data)
    /\ \E r \in {ws_parser_feed(test.p, Slice(test.data, test.pos, n), oob)} :
           test' = test_fed(test, Slice(test.data, test.pos, n), r)
    /\ UNCHANGED engineVars

ParserNext ==
    /\ test.kind = "feed"
    /\ \E n \in ChunkSizes(test.pos, Len(test.data)), oob \in BOOLEAN : Feed(n, oob)

ParserSpec == ParserInit /\ [][ParserNext]_vars

(***************************************************************************)
(* C21. Feeding a byte sequence in chunks gives the same results as        *)
(* feeding it whole: the same frames (opcode, FIN, payload length, payload *)
(* bytes) and the same error at the same position.                         *)
(***************************************************************************)
\* the results up to the first error, the error included
RECURSIVE UpToError(_)
UpToError(out) ==
    IF out = <<>> THEN <<>>
    ELSE IF Head(out).st < 0 THEN <<Head(out)>>
    ELSE <<Head(out)>> \o UpToError(Tail(out))

\* a is the beginning of b
IsPrefix(a, b) == Len(a) <= Len(b) /\ a = SubSeq(b, 1, Len(a))

\* C21: the results the chunked feeding has returned so far are the first
\* results of feeding the whole stream at once, and all of them once the
\* stream is consumed
C21_IncrementalEquivalence ==
    test.kind = "feed"
        => /\ IsPrefix(UpToError(test.out), Whole(test.data, test.max_frame_size))
           /\ (test.pos = Len(test.data) /\ ~Failed(test))
                  => test.out = Whole(test.data, test.max_frame_size)

(***************************************************************************)
(* C22. What ws_build_frame writes, fed to a fresh parser, comes back as   *)
(* FRAME with every byte consumed and the opcode, FIN and payload given.   *)
(***************************************************************************)
\* the built frames a fresh parser may be given first: a data frame, final
\* or not, or a final control frame
ValidFirst(b) ==
    \/ b.opcode \in {WS_OPCODE_TEXT, WS_OPCODE_BINARY}
    \/ b.opcode \in {WS_OPCODE_CLOSE, WS_OPCODE_PING, WS_OPCODE_PONG} /\ b.fin

\* C22: the one ws_parser_feed call on the output of ws_build_frame returns
\* FRAME, consumes the built length, and hands back the opcode, the FIN flag
\* and the payload the builder was given
C22_BuildParseRoundTrip ==
    (/\ test.kind = "feed" /\ test.built # NoBuild /\ ValidFirst(test.built)
     /\ (test.pos > 0 \/ test.out # <<>>))
        => /\ Len(test.out) >= 1
           /\ test.out[1] = [st          |-> WS_PARSER_FRAME,
                             type        |-> test.built.opcode,
                             is_final    |-> test.built.fin,
                             payload_len |-> Len(test.built.payload),
                             payload     |-> test.built.payload,
                             at          |-> Len(test.data)]

(***************************************************************************)
(* The frames of a stream and the results returned for them.               *)
(***************************************************************************)
\* the bytes of a frame on the wire
FrameBytes(f) == f.hdr \o f.payload

\* the stream offset of the k-th frame
RECURSIVE FrameStart(_, _)
FrameStart(frames, k) ==
    IF k <= 1 THEN 0
    ELSE FrameStart(frames, k - 1) + Len(FrameBytes(frames[k - 1]))

\* the frame the i-th result is about: a FRAME result ends a frame, an error
\* leaves the parser in the frame it was in
FrameOf(out, i) == 1 + Cardinality({ j \in 1..(i - 1) : out[j].st = WS_PARSER_FRAME })

\* the frame the parser is in after the results out
CurrentFrame(out) == FrameOf(out, Len(out) + 1)

\* the header length the first two bytes of a frame announce
HeaderLen(w) ==
    2 + (IF w[2] % 128 = 126 THEN 2 ELSE IF w[2] % 128 = 127 THEN 8 ELSE 0)
      + (IF w[2] >= 128 THEN 4 ELSE 0)

\* the payload length a frame's header declares
DeclaredLen(w) ==
    IF w[2] % 128 <= 125 THEN w[2] % 128
    ELSE IF w[2] % 128 = 126 THEN w[3] * 256 + w[4]
    ELSE be_value(w, 2, 8, 0)

\* every result about a frame that satisfies Bad is ERROR_PROTOCOL, and the
\* error has been returned once hdr_bytes(w) bytes of such a frame are consumed
RejectedAsProtocol(Bad(_), hdr_bytes(_)) ==
    /\ \A i \in 1..Len(test.out) :
          LET k == FrameOf(test.out, i)
          IN  (k <= Len(test.frames) /\ Bad(FrameBytes(test.frames[k])))
                  => test.out[i].st = WS_PARSER_ERROR_PROTOCOL
    /\ LET k == CurrentFrame(test.out)
       IN  (/\ k <= Len(test.frames)
            /\ Bad(FrameBytes(test.frames[k]))
            /\ Len(FrameBytes(test.frames[k])) >= hdr_bytes(FrameBytes(test.frames[k]))
            /\ test.pos >= FrameStart(test.frames, k) + hdr_bytes(FrameBytes(test.frames[k])))
               => /\ test.out # <<>>
                  /\ test.out[Len(test.out)].st = WS_PARSER_ERROR_PROTOCOL

(***************************************************************************)
(* C23. A header with an RSV bit set or a reserved opcode is answered with *)
(* ERROR_PROTOCOL and never with FRAME.                                    *)
(***************************************************************************)
\* the first byte has an RSV bit set, or an opcode in 0x3-0x7 or 0xB-0xF
ReservedFirstByte(w) ==
    \/ (w[1] \div 16) % 8 # 0
    \/ w[1] % 16 \in (3..7) \cup (11..15)

TwoBytes(w) == 2

\* C23: every result for a frame whose first byte has an RSV bit or a
\* reserved opcode is ERROR_PROTOCOL, whatever its FIN bit, length and
\* payload, and it is returned as soon as the frame's two first bytes are
\* consumed
C23_ReservedBitsRejected ==
    test.kind = "feed" => RejectedAsProtocol(ReservedFirstByte, TwoBytes)

\* a PING was returned, and the header behind it, with RSV1 or a reserved
\* opcode, was answered with ERROR_PROTOCOL
C23_Witness ==
    /\ test.kind = "feed"
    /\ Len(test.frames) = 2
    /\ ReservedFirstByte(FrameBytes(test.frames[2]))
    /\ Len(test.out) = 2
    /\ test.out[1].st = WS_PARSER_FRAME
    /\ test.out[2].st = WS_PARSER_ERROR_PROTOCOL
    /\ test.pos = FrameStart(test.frames, 2) + 2

(***************************************************************************)
(* C24. A control frame with FIN=0 or a declared length above 125 is       *)
(* answered with ERROR_PROTOCOL.                                           *)
(***************************************************************************)
\* a CLOSE, PING or PONG header, not final or announcing more than 125 bytes
BadControl(w) ==
    /\ (w[1] \div 16) % 8 = 0
    /\ w[1] % 16 \in {WS_OPCODE_CLOSE, WS_OPCODE_PING, WS_OPCODE_PONG}
    /\ Len(w) >= HeaderLen(w)
    /\ (w[1] < 128 \/ DeclaredLen(w) > 125)

\* C24: every result for a control frame with FIN=0 or a declared payload
\* length above 125 is ERROR_PROTOCOL, not ERROR_TOO_LARGE and not FRAME,
\* and it is returned once the header bytes are consumed, however they were
\* split
C24_ControlFrameRules ==
    test.kind = "feed" => RejectedAsProtocol(BadControl, HeaderLen)

\* a final PING announcing 126 bytes to a parser whose limit is below 126
\* was answered with ERROR_PROTOCOL once its four header bytes were in
C24_Witness ==
    /\ test.kind = "feed"
    /\ test.data[1] = 137
    /\ DeclaredLen(test.data) = 126
    /\ test.p.max_frame_size < 126
    /\ test.out # <<>>
    /\ test.out[1].st = WS_PARSER_ERROR_PROTOCOL
    /\ test.p.hdr_have = 4
    /\ test.after = 0

(***************************************************************************)
(* C25. A BINARY frame within max_frame_size comes back with its declared  *)
(* length; one above the limit is ERROR_TOO_LARGE at the header; a 64-bit  *)
(* length with the high bit set is rejected.                               *)
(***************************************************************************)
\* the stream is one final BINARY frame with its header bytes all there
OneBinaryFrame ==
    /\ test.kind = "feed"
    /\ Len(test.frames) = 1
    /\ test.data[1] = 130
    /\ Len(test.data) >= HeaderLen(test.data)

\* the 64-bit length form with the high bit set
HighBitLength(w) == w[2] % 128 = 127 /\ w[3] >= 128

\* C25: a final BINARY frame that declares L bytes: with L <= max_frame_size
\* nothing is returned before its last byte is fed and FRAME with
\* payload_len = L when it is; with L > max_frame_size every result is
\* ERROR_TOO_LARGE and the first comes with the last header byte; with the
\* high bit of a 64-bit length set every result is an error
C25_LengthLimits ==
    OneBinaryFrame =>
        LET H == HeaderLen(test.data)
            L == DeclaredLen(test.data)
        IN  IF HighBitLength(test.data)
            THEN /\ \A i \in 1..Len(test.out) : test.out[i].st < 0
                 /\ test.pos >= H => test.out # <<>>
            ELSE IF L > test.p.max_frame_size
            THEN /\ \A i \in 1..Len(test.out) : test.out[i].st = WS_PARSER_ERROR_TOO_LARGE
                 /\ test.pos >= H => test.out # <<>>
            ELSE /\ test.pos < H + L => test.out = <<>>
                 /\ test.pos = H + L
                        => /\ Len(test.out) = 1
                           /\ test.out[1].st = WS_PARSER_FRAME
                           /\ test.out[1].type = WS_OPCODE_BINARY
                           /\ test.out[1].is_final
                           /\ test.out[1].payload_len = L

(***************************************************************************)
(* C26. Fragmentation tracking over the frames fed to one parser.          *)
(***************************************************************************)
\* a call on a parser that has returned no error returns a result
Answered == test.kind = "feed" /\ ~Failed(test) /\ Len(test'.out) = Len(test.out) + 1

\* what the call that returns a result does for the frame w it is about,
\* with the flag in_fragmented_message before and after the call
FragmentRules(w, status, before, after) ==
    LET opcode == w[1] % 16
        fin    == w[1] >= 128
        data   == opcode \in {WS_OPCODE_TEXT, WS_OPCODE_BINARY}
        fits   == /\ (w[1] \div 16) % 8 = 0
                  /\ Len(w) >= HeaderLen(w)
                  /\ ~HighBitLength(w)
                  /\ DeclaredLen(w) <= test.p.max_frame_size
    IN  /\ (status = WS_PARSER_FRAME /\ opcode = WS_OPCODE_CONTINUATION) => before
        /\ (status = WS_PARSER_FRAME /\ data) => ~before
        /\ (fits /\ opcode = WS_OPCODE_CONTINUATION /\ ~before)
               => status = WS_PARSER_ERROR_PROTOCOL /\ ~after
        /\ (fits /\ data /\ before) => status = WS_PARSER_ERROR_PROTOCOL /\ after
        /\ (status = WS_PARSER_FRAME /\ data) => (after <=> ~fin)
        /\ (status = WS_PARSER_FRAME /\ opcode = WS_OPCODE_CONTINUATION) => (after <=> ~fin)
        /\ (fits /\ fin /\ opcode \in {WS_OPCODE_PING, WS_OPCODE_PONG} /\ DeclaredLen(w) <= 125)
               => status = WS_PARSER_FRAME /\ (after <=> before)
        /\ (status = WS_PARSER_FRAME /\ opcode = WS_OPCODE_CLOSE) => (after <=> before)

C26_Step ==
    Answered =>
        LET k == CurrentFrame(test.out)
        IN  k <= Len(test.frames)
                => FragmentRules(FrameBytes(test.frames[k]),
                                 test'.out[Len(test'.out)].st,
                                 test.p.in_fragmented_message,
                                 test'.p.in_fragmented_message)

\* C26: in every call that returns a result, a CONTINUATION comes back as
\* FRAME only with in_fragmented_message set and a TEXT or BINARY only with
\* it clear, and is ERROR_PROTOCOL otherwise; a non-final TEXT or BINARY
\* leaves the flag set, a final CONTINUATION leaves it clear, and a PING or
\* PONG is returned inside a message as outside, the flag as it was
C26_FragmentationTracking == [][C26_Step]_vars

\* a PING was returned behind a non-final data frame and the parser is still
\* inside the message
C26_Witness ==
    /\ test.kind = "feed"
    /\ Len(test.frames) = 2
    /\ test.frames[1].hdr[1] \in {1, 2}
    /\ test.frames[2].hdr[1] = 137
    /\ Len(test.out) = 2
    /\ test.out[1].st = WS_PARSER_FRAME
    /\ test.out[2].st = WS_PARSER_FRAME
    /\ test.out[2].type = WS_OPCODE_PING
    /\ test.p.in_fragmented_message

\* a final CONTINUATION was returned behind a non-final data frame and the
\* message is over
C26_WitnessEnd ==
    /\ test.kind = "feed"
    /\ Len(test.frames) = 2
    /\ test.frames[2].hdr[1] = 128 + WS_OPCODE_CONTINUATION
    /\ Len(test.out) = 2
    /\ test.out[2].st = WS_PARSER_FRAME
    /\ ~test.p.in_fragmented_message

(***************************************************************************)
(* C27. The checks of a received CLOSE frame: payload length, close code   *)
(* and reason.                                                             *)
(***************************************************************************)
\* the stream is one final unmasked CLOSE frame in the short length form,
\* within the parser's limit
OneCloseFrame ==
    /\ test.kind = "feed"
    /\ test.built = NoBuild
    /\ Len(test.frames) = 1
    /\ test.data[1] = 136
    /\ test.data[2] <= 125
    /\ test.data[2] <= test.p.max_frame_size
    /\ Len(test.data) = 2 + test.data[2]

\* the close code in the first two payload bytes of the CLOSE frame w
WireCloseCode(w) == w[3] * 256 + w[4]

\* the reason behind the close code
WireCloseReason(w) == SubSeq(w, 5, Len(w))

\* the codes that must not be received
RefusedCloseCode(code) ==
    \/ code \in {1004, 1005, 1006, 1015}
    \/ code < 1000
    \/ code \in 1012..2999

\* the first result for the CLOSE frame is there once its last byte is fed
CloseAnswered == test.pos = Len(test.data) => test.out # <<>>

\* C27: the first result for a CLOSE frame is FRAME when it has no payload,
\* and ERROR_PROTOCOL when it has one payload byte, when its code is 1004,
\* 1005, 1006, 1015, below 1000 or in 1012-2999, and when its reason is
\* not valid UTF-8
C27_CloseFrameChecks ==
    OneCloseFrame =>
        /\ CloseAnswered
        /\ test.out # <<>> =>
              LET L  == test.data[2]
                  st1 == test.out[1].st
              IN  /\ L = 0 => st1 = WS_PARSER_FRAME
                  /\ L = 1 => st1 = WS_PARSER_ERROR_PROTOCOL
                  /\ (L >= 2 /\ RefusedCloseCode(WireCloseCode(test.data)))
                         => st1 = WS_PARSER_ERROR_PROTOCOL
                  /\ (/\ L > 2
                      /\ ~RefusedCloseCode(WireCloseCode(test.data))
                      /\ ~ws_utf8_is_valid(WireCloseReason(test.data)))
                         => st1 = WS_PARSER_ERROR_PROTOCOL

(***************************************************************************)
(* C28. A received CLOSE frame with an application-defined code is         *)
(* accepted.                                                               *)
(***************************************************************************)
\* the codes a peer may send
AcceptedCloseCode(code) ==
    \/ code \in {1000, 1001, 1002, 1003, 1007, 1008, 1009, 1010, 1011}
    \/ code \in 3000..4999

\* C28: the first result for a CLOSE frame whose code is one of 1000-1003,
\* 1007-1011 or lies in 3000-4999, and whose reason is valid UTF-8, is FRAME
C28_ApplicationCloseCodes ==
    (/\ OneCloseFrame
     /\ test.data[2] >= 2
     /\ AcceptedCloseCode(WireCloseCode(test.data))
     /\ ws_utf8_is_valid(WireCloseReason(test.data))
     /\ test.out # <<>>)
        => test.out[1].st = WS_PARSER_FRAME

(***************************************************************************)
(* C29. The payload of a TEXT frame, and of a CONTINUATION frame of a      *)
(* TEXT message, must be valid UTF-8; a BINARY payload is not looked at.   *)
(***************************************************************************)
\* the payload bytes of the unmasked frame w
WirePayload(w) == SubSeq(w, HeaderLen(w) + 1, HeaderLen(w) + DeclaredLen(w))

\* the opcode of the message that is open in front of the k-th frame, the
\* frames before it having been returned; NULL when none is open
RECURSIVE MessageOpcode(_, _)
MessageOpcode(frames, k) ==
    IF k <= 1 THEN NULL
    ELSE LET b0 == frames[k - 1].hdr[1]
         IN  IF b0 % 16 \in {WS_OPCODE_TEXT, WS_OPCODE_BINARY} /\ b0 < 128 THEN b0 % 16
             ELSE IF b0 = 128 + WS_OPCODE_CONTINUATION THEN NULL
             ELSE MessageOpcode(frames, k - 1)

\* the k-th frame is an unmasked data frame of kind opcode (a frame with
\* that opcode and no message open, or a CONTINUATION of such a message),
\* within the limit and with its bytes all in the stream
DataFrameOf(opcode, frames, k) ==
    LET w == FrameBytes(frames[k])
    IN  /\ (w[1] \div 16) % 8 = 0
        /\ w[2] < 128
        /\ Len(w) >= HeaderLen(w)
        /\ ~HighBitLength(w)
        /\ DeclaredLen(w) <= test.p.max_frame_size
        /\ Len(w) >= HeaderLen(w) + DeclaredLen(w)
        /\ \/ w[1] % 16 = opcode /\ MessageOpcode(frames, k) = NULL
           \/ w[1] % 16 = WS_OPCODE_CONTINUATION /\ MessageOpcode(frames, k) = opcode

\* C29: up to the first error, the result for a TEXT frame or a
\* CONTINUATION of a TEXT message whose payload is not valid UTF-8 is
\* ERROR_PROTOCOL, however its bytes were split over the calls, and the
\* result for a BINARY frame or a CONTINUATION of a BINARY message is FRAME
\* whatever its payload
C29_TextPayloadValidated ==
    test.kind = "feed" =>
        \A i \in 1..Len(UpToError(test.out)) :
            LET k == FrameOf(test.out, i)
            IN  k <= Len(test.frames) =>
                  /\ (/\ DataFrameOf(WS_OPCODE_TEXT, test.frames, k)
                      /\ ~ws_utf8_is_valid(WirePayload(FrameBytes(test.frames[k]))))
                         => test.out[i].st = WS_PARSER_ERROR_PROTOCOL
                  /\ DataFrameOf(WS_OPCODE_BINARY, test.frames, k)
                         => test.out[i].st = WS_PARSER_FRAME

(***************************************************************************)
(* The validator on its own: ws_utf8_is_valid called on a byte string.     *)
(***************************************************************************)
\* the longest byte string validated
MaxUtf8Len == 4

\* the bytes the strings are made of: an ASCII byte, the ends of the
\* continuation range and of the second-byte ranges of E0, ED, F0 and F4,
\* lead bytes of every length, C1 and F5 among them, and F8
Utf8Bytes == {65, 128, 143, 144, 159, 160, 191, 193, 194, 224, 237, 240, 244, 245, 248}

Utf8Strings == UNION { [1..n -> Utf8Bytes] : n \in 0..MaxUtf8Len }

\* a byte string before and after the call; valid holds what the call returned
Utf8Test(s) == [kind |-> "utf8", s |-> s, called |-> FALSE, valid |-> FALSE]

Utf8Init ==
    /\ EngineInit
    /\ test \in { Utf8Test(s) : s \in Utf8Strings }

Validate ==
    /\ test.kind = "utf8"
    /\ ~test.called
    /\ test' = [test EXCEPT !.called = TRUE, !.valid = ws_utf8_is_valid(test.s)]
    /\ UNCHANGED engineVars

Utf8Next == Validate

Utf8Spec == Utf8Init /\ [][Utf8Next]_vars

(***************************************************************************)
(* C30. ws_utf8_is_valid accepts exactly the concatenations of well-formed *)
(* encodings of the code points U+0000..U+10FFFF without the surrogates.   *)
(***************************************************************************)
\* the UTF-8 encoding of a code point: the shortest form
Utf8Encode(cp) ==
    IF cp < 128 THEN <<cp>>
    ELSE IF cp < 2048 THEN <<192 + (cp \div 64), 128 + (cp % 64)>>
    ELSE IF cp < 65536
         THEN <<224 + (cp \div 4096), 128 + ((cp \div 64) % 64), 128 + (cp % 64)>>
    ELSE <<240 + (cp \div 262144), 128 + ((cp \div 4096) % 64),
           128 + ((cp \div 64) % 64), 128 + (cp % 64)>>

\* the number a sequence of one to four bytes carries in its payload bits
PayloadBits(b) ==
    IF Len(b) = 1 THEN b[1]
    ELSE IF Len(b) = 2 THEN (b[1] % 32) * 64 + (b[2] % 64)
    ELSE IF Len(b) = 3 THEN (b[1] % 16) * 4096 + (b[2] % 64) * 64 + (b[3] % 64)
    ELSE (b[1] % 8) * 262144 + (b[2] % 64) * 4096 + (b[3] % 64) * 64 + (b[4] % 64)

\* a code point that is not a surrogate
IsScalar(cp) == cp \in 0..1114111 /\ cp \notin 55296..57343

\* b is the encoding of a code point that is not a surrogate
EncodesScalar(b) == IsScalar(PayloadBits(b)) /\ Utf8Encode(PayloadBits(b)) = b

\* s[i ..] is a concatenation of such encodings
RECURSIVE WellFormedFrom(_, _)
WellFormedFrom(s, i) ==
    \/ i = Len(s)
    \/ \E n \in 1..Min(4, Len(s) - i) :
          /\ EncodesScalar(SubSeq(s, i + 1, i + n))
          /\ WellFormedFrom(s, i + n)

\* C30: ws_utf8_is_valid returns true exactly for the byte strings that are
\* concatenations of encodings of code points U+0000..U+10FFFF other than
\* surrogates, each in its shortest form, the empty string among them
C30_Utf8Validator ==
    (test.kind = "utf8" /\ test.called) => (test.valid <=> WellFormedFrom(test.s, 0))

\* the four-byte encoding F0 90 80 BF was accepted
C30_Witness ==
    /\ test.kind = "utf8"
    /\ test.called
    /\ test.s = <<240, 144, 128, 191>>
    /\ test.valid

\* the surrogate ED A0 80 was refused
C30_WitnessSurrogate ==
    /\ test.kind = "utf8"
    /\ test.called
    /\ test.s = <<237, 160, 128>>
    /\ ~test.valid

\* the empty string was accepted
C30_WitnessEmpty ==
    /\ test.kind = "utf8"
    /\ test.called
    /\ test.s = <<>>
    /\ test.valid

(***************************************************************************)
(* The handshake helpers on their own: ws_compute_accept called on a key,  *)
(* and ws_validate_handshake_response called on a response and the accept  *)
(* value expected.                                                         *)
(***************************************************************************)
\* "dGhlIHNhbXBsZSBub25jZQ=="
KeySample ==
    <<100, 71, 104, 108, 73, 72, 78, 104, 98, 88, 66, 115, 90, 83, 66, 117, 98, 50, 53,
      106, 90, 81, 61, 61>>

\* "s3pPLMBiTxaQ9kYGzzhZRbK+xOo="
AcceptSample ==
    <<115, 51, 112, 80, 76, 77, 66, 105, 84, 120, 97, 81, 57, 107, 89, 71, 122, 122,
      104, 90, 82, 98, 75, 43, 120, 79, 111, 61>>

\* "x3JJHMbDL1EzLkh9GBhXDw=="
KeySecond ==
    <<120, 51, 74, 74, 72, 77, 98, 68, 76, 49, 69, 122, 76, 107, 104, 57, 71, 66, 104,
      88, 68, 119, 61, 61>>

\* "HSmrc0sMlYUkAGmm5OPpG2HaGWk="
AcceptSecond ==
    <<72, 83, 109, 114, 99, 48, 115, 77, 108, 89, 85, 107, 65, 71, 109, 109, 53, 79,
      80, 112, 71, 50, 72, 97, 71, 87, 107, 61>>

\* "AAAAAAAAAAAAAAAAAAAAAA=="
KeyZeros ==
    <<65, 65, 65, 65, 65, 65, 65, 65, 65, 65, 65, 65, 65, 65, 65, 65, 65, 65, 65, 65,
      65, 65, 61, 61>>

\* "ICX+Yqv66kxgM0FcWaLWlFLwTAI="
AcceptZeros ==
    <<73, 67, 88, 43, 89, 113, 118, 54, 54, 107, 120, 103, 77, 48, 70, 99, 87, 97, 76,
      87, 108, 70, 76, 119, 84, 65, 73, 61>>

\* "/////////////////////w=="
KeyOnes ==
    <<47, 47, 47, 47, 47, 47, 47, 47, 47, 47, 47, 47, 47, 47, 47, 47, 47, 47, 47, 47,
      47, 119, 61, 61>>

\* "XXpj4jYzLM2yUE0C7TIgMwTQh2g="
AcceptOnes ==
    <<88, 88, 112, 106, 52, 106, 89, 122, 76, 77, 50, 121, 85, 69, 48, 67, 55, 84, 73,
      103, 77, 119, 84, 81, 104, 50, 103, 61>>

\* "Kfh9QIsMVZcl6xEPYxPHzW8SZ8w=", for the empty key
AcceptEmpty ==
    <<75, 102, 104, 57, 81, 73, 115, 77, 86, 90, 99, 108, 54, 120, 69, 80, 89, 120, 80,
      72, 122, 87, 56, 83, 90, 56, 119, 61>>

\* keys and the base64 of the SHA-1 of the key followed by the GUID: the
\* sample of RFC 6455, a second nonce, the nonces of sixteen 00 and sixteen
\* FF bytes, and the empty key
AcceptTable ==
    { [key |-> KeySample, accept |-> AcceptSample],
      [key |-> KeySecond, accept |-> AcceptSecond],
      [key |-> KeyZeros, accept |-> AcceptZeros],
      [key |-> KeyOnes, accept |-> AcceptOnes],
      [key |-> <<>>, accept |-> AcceptEmpty] }

\* a key before and after ws_compute_accept; out_accept holds what it wrote
AcceptTest(key) == [kind |-> "accept", key |-> key, called |-> FALSE, out_accept |-> <<>>]

ComputeAccept ==
    /\ test.kind = "accept"
    /\ ~test.called
    /\ test' = [test EXCEPT !.called = TRUE, !.out_accept = ws_compute_accept(test.key)]
    /\ UNCHANGED engineVars

\* "HTTP/1.1 101 Switching Protocols"
LineStatus101 ==
    <<72, 84, 84, 80, 47, 49, 46, 49, 32, 49, 48, 49, 32, 83, 119, 105, 116, 99, 104,
      105, 110, 103, 32, 80, 114, 111, 116, 111, 99, 111, 108, 115>>

\* "HTTP/1.1 200 OK"
LineStatus200 ==
    <<72, 84, 84, 80, 47, 49, 46, 49, 32, 50, 48, 48, 32, 79, 75>>

\* "HTTP/1.0 101 Switching Protocols"
LineStatusOld ==
    <<72, 84, 84, 80, 47, 49, 46, 48, 32, 49, 48, 49, 32, 83, 119, 105, 116, 99, 104,
      105, 110, 103, 32, 80, 114, 111, 116, 111, 99, 111, 108, 115>>

\* "Upgrade: websocket"
LineUpgrade ==
    <<85, 112, 103, 114, 97, 100, 101, 58, 32, 119, 101, 98, 115, 111, 99, 107, 101, 116>>

\* "Upgrade: WebSocket"
LineUpgradeMixed ==
    <<85, 112, 103, 114, 97, 100, 101, 58, 32, 87, 101, 98, 83, 111, 99, 107, 101, 116>>

\* "upgrade: websocket"
LineUpgradeLowerName ==
    <<117, 112, 103, 114, 97, 100, 101, 58, 32, 119, 101, 98, 115, 111, 99, 107, 101,
      116>>

\* "Upgrade: h2c"
LineUpgradeOther ==
    <<85, 112, 103, 114, 97, 100, 101, 58, 32, 104, 50, 99>>

\* "Connection: Upgrade"
LineConnection ==
    <<67, 111, 110, 110, 101, 99, 116, 105, 111, 110, 58, 32, 85, 112, 103, 114, 97,
      100, 101>>

\* "Connection: keep-alive, upgrade"
LineConnectionList ==
    <<67, 111, 110, 110, 101, 99, 116, 105, 111, 110, 58, 32, 107, 101, 101, 112, 45,
      97, 108, 105, 118, 101, 44, 32, 117, 112, 103, 114, 97, 100, 101>>

\* "CONNECTION: Upgrade"
LineConnectionUpperName ==
    <<67, 79, 78, 78, 69, 67, 84, 73, 79, 78, 58, 32, 85, 112, 103, 114, 97, 100, 101>>

\* "Connection: close"
LineConnectionOther ==
    <<67, 111, 110, 110, 101, 99, 116, 105, 111, 110, 58, 32, 99, 108, 111, 115, 101>>

\* "Sec-WebSocket-Accept: s3pPLMBiTxaQ9kYGzzhZRbK+xOo="
LineAccept ==
    <<83, 101, 99, 45, 87, 101, 98, 83, 111, 99, 107, 101, 116, 45, 65, 99, 99, 101,
      112, 116, 58, 32, 115, 51, 112, 80, 76, 77, 66, 105, 84, 120, 97, 81, 57, 107,
      89, 71, 122, 122, 104, 90, 82, 98, 75, 43, 120, 79, 111, 61>>

\* "Sec-WebSocket-Accept:\t s3pPLMBiTxaQ9kYGzzhZRbK+xOo= \t"
LineAcceptPadded ==
    <<83, 101, 99, 45, 87, 101, 98, 83, 111, 99, 107, 101, 116, 45, 65, 99, 99, 101,
      112, 116, 58, 9, 32, 115, 51, 112, 80, 76, 77, 66, 105, 84, 120, 97, 81, 57, 107,
      89, 71, 122, 122, 104, 90, 82, 98, 75, 43, 120, 79, 111, 61, 32, 9>>

\* "sec-websocket-accept: s3pPLMBiTxaQ9kYGzzhZRbK+xOo="
LineAcceptLowerName ==
    <<115, 101, 99, 45, 119, 101, 98, 115, 111, 99, 107, 101, 116, 45, 97, 99, 99, 101,
      112, 116, 58, 32, 115, 51, 112, 80, 76, 77, 66, 105, 84, 120, 97, 81, 57, 107,
      89, 71, 122, 122, 104, 90, 82, 98, 75, 43, 120, 79, 111, 61>>

\* "Sec-WebSocket-Accept: WRONG"
LineAcceptWrong ==
    <<83, 101, 99, 45, 87, 101, 98, 83, 111, 99, 107, 101, 116, 45, 65, 99, 99, 101,
      112, 116, 58, 32, 87, 82, 79, 78, 71>>

\* "Sec-WebSocket-Accept: s3pPLMBiTxaQ9kYGzzhZRbK+xOo=="
LineAcceptLonger ==
    <<83, 101, 99, 45, 87, 101, 98, 83, 111, 99, 107, 101, 116, 45, 65, 99, 99, 101,
      112, 116, 58, 32, 115, 51, 112, 80, 76, 77, 66, 105, 84, 120, 97, 81, 57, 107,
      89, 71, 122, 122, 104, 90, 82, 98, 75, 43, 120, 79, 111, 61, 61>>

\* "X-Note: websocket upgrade"
LineNote ==
    <<88, 45, 78, 111, 116, 101, 58, 32, 119, 101, 98, 115, 111, 99, 107, 101, 116, 32,
      117, 112, 103, 114, 97, 100, 101>>

\* "X-Note: Upgrade: websocket, Connection: Upgrade"
LineNoteNames ==
    <<88, 45, 78, 111, 116, 101, 58, 32, 85, 112, 103, 114, 97, 100, 101, 58, 32, 119,
      101, 98, 115, 111, 99, 107, 101, 116, 44, 32, 67, 111, 110, 110, 101, 99, 116,
      105, 111, 110, 58, 32, 85, 112, 103, 114, 97, 100, 101>>

\* "Server: wibe"
LineServer ==
    <<83, 101, 114, 118, 101, 114, 58, 32, 119, 105, 98, 101>>

\* the response made of lines: each line with CRLF behind it, and the blank
\* line at the end
RECURSIVE ResponseText(_)
ResponseText(lines) ==
    IF lines = <<>> THEN CRLF ELSE Head(lines) \o CRLF \o ResponseText(Tail(lines))

\* the offset of the colon that ends the name of a header line, 0 if the
\* line has none
NameEnd(line) ==
    IF \E i \in 1..Len(line) : line[i] = 58
    THEN First({ i \in 1..Len(line) : line[i] = 58 })
    ELSE 0

HeaderName(line) == SubSeq(line, 1, NameEnd(line) - 1)

HeaderValue(line) == SubSeq(line, NameEnd(line) + 1, Len(line))

\* a string in lower case
Lower(s) == [i \in 1..Len(s) |-> ToLower(s[i])]

\* the line is a header of that name, in that spelling or in any letter case
IsHeader(line, name) == NameEnd(line) > 0 /\ HeaderName(line) = name

IsHeaderAnyCase(line, name) == NameEnd(line) > 0 /\ Lower(HeaderName(line)) = Lower(name)

\* the three headers the validation looks for
RequiredHeaders == {StrUpgrade, StrConnection, StrAccept}

\* the lines with the names of those headers in their canonical spelling
Canonical(lines) ==
    [i \in 1..Len(lines) |->
        IF i > 1 /\ \E name \in RequiredHeaders : IsHeaderAnyCase(lines[i], name)
        THEN (CHOOSE name \in RequiredHeaders : IsHeaderAnyCase(lines[i], name))
                 \o SubSeq(lines[i], NameEnd(lines[i]), Len(lines[i]))
        ELSE lines[i]]

\* the responses validated: a status line, or a 200 status line with a 101
\* status line behind it; then an Upgrade, a Connection and an accept line,
\* each in several spellings and values or absent; then nothing, or a
\* header whose value holds the words or the names looked for
LeadLines == { <<LineStatus101>>, <<LineStatus200>>, <<LineStatusOld>>,
               <<LineStatus200, LineStatus101>> }

UpgradeLines == { <<LineUpgrade>>, <<LineUpgradeMixed>>, <<LineUpgradeLowerName>>,
                  <<LineUpgradeOther>>, <<>> }

ConnectionLines == { <<LineConnection>>, <<LineConnectionList>>, <<LineConnectionUpperName>>,
                     <<LineConnectionOther>>, <<>> }

AcceptLines == { <<LineAccept>>, <<LineAcceptPadded>>, <<LineAcceptLowerName>>,
                 <<LineAcceptWrong>>, <<LineAcceptLonger>>, <<>> }

TrailingLines == { <<>>, <<LineNote>>, <<LineNoteNames>> }

ResponseLines ==
    { lead \o up \o co \o ac \o more :
         lead \in LeadLines, up \in UpgradeLines, co \in ConnectionLines,
         ac \in AcceptLines, more \in TrailingLines }

\* a response before and after ws_validate_handshake_response is called on
\* it (ret) and on its canonical spelling (ret_canonical)
ValidateTest(lines, expected_accept) ==
    [kind |-> "validate", lines |-> lines, response |-> ResponseText(lines),
     expected_accept |-> expected_accept, called |-> FALSE, ret |-> 0, ret_canonical |-> 0]

ValidateResponse ==
    /\ test.kind = "validate"
    /\ ~test.called
    /\ test' = [test EXCEPT
                  !.called = TRUE,
                  !.ret = ws_validate_handshake_response(test.response, test.expected_accept),
                  !.ret_canonical =
                      ws_validate_handshake_response(ResponseText(Canonical(test.lines)),
                                                     test.expected_accept)]
    /\ UNCHANGED engineVars

HandshakeInit ==
    /\ EngineInit
    /\ test \in { AcceptTest(e.key) : e \in AcceptTable }
                \cup { ValidateTest(lines, AcceptSample) : lines \in ResponseLines }

HandshakeNext == ComputeAccept \/ ValidateResponse

HandshakeSpec == HandshakeInit /\ [][HandshakeNext]_vars

(***************************************************************************)
(* C31. ws_compute_accept gives the base64 of the SHA-1 of the key         *)
(* followed by the GUID.                                                   *)
(***************************************************************************)
\* C31: what ws_compute_accept writes for a key is the 28-character base64
\* of SHA-1(key followed by 258EAFA5-E914-47DA-95CA-C5AB0DC85B11); for the
\* key dGhlIHNhbXBsZSBub25jZQ== it is s3pPLMBiTxaQ9kYGzzhZRbK+xOo=
C31_AcceptValue ==
    (test.kind = "accept" /\ test.called)
        => /\ Len(test.out_accept) = 28
           /\ \E e \in AcceptTable : e.key = test.key /\ e.accept = test.out_accept

\* the accept value of the RFC's sample key was computed
C31_Witness ==
    /\ test.kind = "accept"
    /\ test.called
    /\ test.key = KeySample
    /\ test.out_accept = AcceptSample

(***************************************************************************)
(* C32. ws_validate_handshake_response succeeds exactly for a 101          *)
(* response with the three headers and the expected accept value.          *)
(***************************************************************************)
\* s begins with prefix
StartsWith(s, prefix) == Len(s) >= Len(prefix) /\ SubSeq(s, 1, Len(prefix)) = prefix

\* needle occurs in s, whatever the letter case
ContainsAnyCase(s, needle) ==
    \E p \in 0..(Len(s) - Len(needle)) : Lower(Slice(s, p, Len(needle))) = Lower(needle)

\* a value without the spaces and tabs around it
RECURSIVE Trimmed(_)
Trimmed(v) ==
    IF v = <<>> THEN v
    ELSE IF v[1] \in {32, 9} THEN Trimmed(Tail(v))
    ELSE IF v[Len(v)] \in {32, 9, 13} THEN Trimmed(SubSeq(v, 1, Len(v) - 1))
    ELSE v

\* the header lines of that name, in any letter case
HeadersNamed(lines, name) ==
    { i \in 2..Len(lines) : IsHeaderAnyCase(lines[i], name) }

\* the response answers the handshake: a 101 status line first, an Upgrade
\* header with websocket in its value, a Connection header with upgrade in
\* its value, and an accept header whose trimmed value is the expected one
AnswersHandshake(lines, expected_accept) ==
    /\ StartsWith(lines[1], StrStatus101)
    /\ \E i \in HeadersNamed(lines, StrUpgrade) :
          ContainsAnyCase(HeaderValue(lines[i]), StrWebsocket)
    /\ \E i \in HeadersNamed(lines, StrConnection) :
          ContainsAnyCase(HeaderValue(lines[i]), StrUpgradeLower)
    /\ \E i \in HeadersNamed(lines, StrAccept) :
          Trimmed(HeaderValue(lines[i])) = expected_accept

\* the names of the required headers are all in their canonical spelling
CanonicalNames(lines) == Canonical(lines) = lines

\* C32: for a response whose header names are spelled canonically,
\* ws_validate_handshake_response returns 0 exactly when the first line
\* starts with HTTP/1.1 101, an Upgrade line's own value contains websocket,
\* a Connection line's own value contains upgrade, and an accept line's
\* trimmed value equals the expected accept string
C32_ValidateExactly ==
    (test.kind = "validate" /\ test.called /\ CanonicalNames(test.lines))
        => (test.ret = 0 <=> AnswersHandshake(test.lines, test.expected_accept))

(***************************************************************************)
(* C33. The header lookup ignores the letter case of the name and takes a  *)
(* name only at the start of a line.                                       *)
(***************************************************************************)
\* C33: a response is validated like its canonical spelling, and a response
\* without a line of one of the three header names is refused even when the
\* name occurs in the value of another header
C33_HeaderLookup ==
    (test.kind = "validate" /\ test.called)
        => /\ test.ret = test.ret_canonical
           /\ (\E name \in RequiredHeaders : HeadersNamed(test.lines, name) = {})
                  => test.ret # 0

(***************************************************************************)
(* The ring buffer. The repository holds two implementations of the same   *)
(* functions: internal/ringbuf.c, which tells a full buffer from an empty  *)
(* one by a flag, and the copy behind internal/frame.h, which counts the   *)
(* bytes stored (its names end in _count here). A buffer is the struct     *)
(* with the bytes of its memory; impl says which implementation works on   *)
(* it.                                                                     *)
(***************************************************************************)
\* ws_ringbuf_init of either implementation; fill is what malloc's memory
\* holds
ringbuf_new(impl, capacity, fill) ==
    [impl |-> impl, buffer |-> [i \in 1..capacity |-> fill], capacity |-> capacity,
     head |-> 0, tail |-> 0, count |-> 0, full |-> FALSE]

\* ringbuf.c: ws_ringbuf_init
ws_ringbuf_init(capacity, fill) == ringbuf_new("flag", capacity, fill)

\* frame.h: ws_ringbuf_init
ws_ringbuf_init_count(capacity, fill) == ringbuf_new("count", capacity, fill)

advance_index(idx, n, cap) == IF idx + n >= cap THEN idx + n - cap ELSE idx + n

\* ringbuf.c: ws_ringbuf_size
ws_ringbuf_size(rb) ==
    IF rb.full THEN rb.capacity
    ELSE IF rb.head >= rb.tail THEN rb.head - rb.tail
    ELSE rb.capacity - (rb.tail - rb.head)

ws_ringbuf_available(rb) == rb.capacity - ws_ringbuf_size(rb)

ws_ringbuf_is_empty(rb) == ~rb.full /\ rb.head = rb.tail

ws_ringbuf_is_full(rb) == rb.full

\* what a peek returns: the pointer as an offset into the memory (NULL for
\* none) and the length of the region
Region(ptr, len) == [ptr |-> ptr, len |-> len]

\* ringbuf.c: ws_ringbuf_peek_read
ws_ringbuf_peek_read(rb) ==
    IF ws_ringbuf_size(rb) = 0 THEN Region(NULL, 0)
    ELSE Region(rb.tail,
                Min(IF rb.full \/ rb.tail < rb.head
                    THEN (IF rb.full THEN rb.capacity - rb.tail ELSE rb.head - rb.tail)
                    ELSE rb.capacity - rb.tail,
                    ws_ringbuf_size(rb)))

\* ringbuf.c: ws_ringbuf_consume
ws_ringbuf_consume(rb, nbytes) ==
    [rb EXCEPT !.tail = advance_index(rb.tail, Min(nbytes, ws_ringbuf_size(rb)), rb.capacity),
               !.full = FALSE]

\* ringbuf.c: ws_ringbuf_peek_write
ws_ringbuf_peek_write(rb) ==
    IF rb.full THEN Region(NULL, 0)
    ELSE Region(rb.head,
                Min(IF rb.head < rb.tail THEN rb.tail - rb.head ELSE rb.capacity - rb.head,
                    ws_ringbuf_available(rb)))

\* ringbuf.c: ws_ringbuf_commit, from the new head on
ringbuf_committed(rb, head) ==
    [rb EXCEPT !.head = head, !.full = IF head = rb.tail THEN TRUE ELSE rb.full]

\* ringbuf.c: ws_ringbuf_commit
ws_ringbuf_commit(rb, nbytes) ==
    ringbuf_committed(rb, advance_index(rb.head, Min(nbytes, ws_ringbuf_available(rb)),
                                        rb.capacity))

\* frame.h: ws_ringbuf_size, ws_ringbuf_available, ws_ringbuf_is_empty,
\* ws_ringbuf_is_full
ws_ringbuf_size_count(rb) == rb.count

ws_ringbuf_available_count(rb) == rb.capacity - rb.count

ws_ringbuf_is_empty_count(rb) == rb.count = 0

ws_ringbuf_is_full_count(rb) == rb.count = rb.capacity

\* frame.h: ws_ringbuf_peek_read
ws_ringbuf_peek_read_count(rb) ==
    IF ws_ringbuf_size_count(rb) = 0 THEN Region(NULL, 0)
    ELSE Region(rb.tail,
                Min(IF rb.tail < rb.head THEN rb.head - rb.tail ELSE rb.capacity - rb.tail,
                    ws_ringbuf_size_count(rb)))

\* frame.h: ws_ringbuf_consume
ws_ringbuf_consume_count(rb, nbytes) ==
    IF nbytes = 0 \/ rb.capacity = 0 THEN rb
    ELSE [rb EXCEPT !.tail = advance_index(rb.tail, Min(nbytes, rb.count), rb.capacity),
                    !.count = rb.count - Min(nbytes, rb.count)]

\* frame.h: ws_ringbuf_peek_write
ws_ringbuf_peek_write_count(rb) ==
    IF rb.count = rb.capacity THEN Region(NULL, 0)
    ELSE Region(rb.head,
                Min(IF rb.head < rb.tail THEN rb.tail - rb.head ELSE rb.capacity - rb.head,
                    ws_ringbuf_available_count(rb)))

\* frame.h: ws_ringbuf_commit
ws_ringbuf_commit_count(rb, nbytes) ==
    IF nbytes = 0 \/ rb.capacity = 0 THEN rb
    ELSE [rb EXCEPT !.head = advance_index(rb.head, Min(nbytes, rb.capacity - rb.count),
                                           rb.capacity),
                    !.count = rb.count + Min(nbytes, rb.capacity - rb.count)]

\* the functions of the implementation that works on rb
rb_size(rb) == IF rb.impl = "count" THEN ws_ringbuf_size_count(rb) ELSE ws_ringbuf_size(rb)

rb_available(rb) ==
    IF rb.impl = "count" THEN ws_ringbuf_available_count(rb) ELSE ws_ringbuf_available(rb)

rb_is_empty(rb) ==
    IF rb.impl = "count" THEN ws_ringbuf_is_empty_count(rb) ELSE ws_ringbuf_is_empty(rb)

rb_is_full(rb) ==
    IF rb.impl = "count" THEN ws_ringbuf_is_full_count(rb) ELSE ws_ringbuf_is_full(rb)

rb_peek_read(rb) ==
    IF rb.impl = "count" THEN ws_ringbuf_peek_read_count(rb) ELSE ws_ringbuf_peek_read(rb)

rb_peek_write(rb) ==
    IF rb.impl = "count" THEN ws_ringbuf_peek_write_count(rb) ELSE ws_ringbuf_peek_write(rb)

rb_consume(rb, nbytes) ==
    IF rb.impl = "count" THEN ws_ringbuf_consume_count(rb, nbytes)
    ELSE ws_ringbuf_consume(rb, nbytes)

rb_commit(rb, nbytes) ==
    IF rb.impl = "count" THEN ws_ringbuf_commit_count(rb, nbytes)
    ELSE ws_ringbuf_commit(rb, nbytes)

\* memcpy(rb->buffer + ptr, data, n)
ringbuf_stored(rb, ptr, data, n) ==
    [rb EXCEPT !.buffer = [i \in 1..rb.capacity |->
                              IF i > ptr /\ i <= ptr + n THEN data[i - ptr] ELSE rb.buffer[i]]]

\* ws_ringbuf_write_copy (the same text in both files): the buffer and the
\* number of bytes written
RECURSIVE write_copy_loop(_, _, _)
write_copy_loop(rb, data, nwritten) ==
    IF data = <<>> \/ rb_peek_write(rb).len = 0 THEN [rb |-> rb, ret |-> nwritten]
    ELSE LET n == Min(Len(data), rb_peek_write(rb).len)
         IN  write_copy_loop(rb_commit(ringbuf_stored(rb, rb_peek_write(rb).ptr, data, n), n),
                             SubSeq(data, n + 1, Len(data)), nwritten + n)

ws_ringbuf_write_copy(rb, data) == write_copy_loop(rb, data, 0)

\* ws_ringbuf_read_copy (the same text in both files): the buffer, the bytes
\* copied out and their number
RECURSIVE read_copy_loop(_, _, _)
read_copy_loop(rb, len, out) ==
    IF len = 0 \/ rb_peek_read(rb).len = 0 THEN [rb |-> rb, out |-> out, ret |-> Len(out)]
    ELSE LET n == Min(len, rb_peek_read(rb).len)
         IN  read_copy_loop(rb_consume(rb, n), len - n,
                            out \o Slice(rb.buffer, rb_peek_read(rb).ptr, n))

ws_ringbuf_read_copy(rb, len) == read_copy_loop(rb, len, <<>>)
(***************************************************************************)
(* The ring buffer on its own: a buffer of either implementation is        *)
(* created with a small capacity and then any of its functions is called   *)
(* with any argument, until MaxAccepted bytes went in or came out.         *)
(* accepted is every byte the buffer took in, in order,                    *)
(* taken every byte it gave out; last records the latest call, its length  *)
(* argument and what it returned.                                          *)
(***************************************************************************)
MaxCapacity == 2

MaxAccepted == 3

RingBytes == {65, 66}

\* what the memory malloc returned holds: a byte no caller writes
RingFill == {67}

RingImpls == {"flag", "count"}

\* the arguments a length parameter is called with
RingLens == 0..(MaxCapacity + 1)

RingData == UNION { [1..n -> RingBytes] : n \in RingLens }

\* the bytes the buffer holds, oldest first
Stored(rb) ==
    [i \in 1..rb_size(rb) |-> rb.buffer[((rb.tail + i - 1) % rb.capacity) + 1]]

\* the n bytes of memory from the write index on, around the end
AtHead(rb, n) ==
    [i \in 1..n |-> rb.buffer[((rb.head + i - 1) % rb.capacity) + 1]]

RingCall(name, n, r) == [op |-> name, n |-> n, ret |-> r]

RingTest(rb) ==
    [kind |-> "ring", rb |-> rb, accepted |-> <<>>, taken |-> <<>>,
     only_copy |-> TRUE, last |-> RingCall("init", rb.capacity, 0)]

\* malloc(0) may return a pointer or NULL; with NULL ws_ringbuf_init returns
\* -1 and there is no buffer to work on
RingTests ==
    { RingTest(ws_ringbuf_init(c, fill)) : c \in 0..MaxCapacity, fill \in RingFill }
    \cup { RingTest(ws_ringbuf_init_count(c, fill)) : c \in 0..MaxCapacity, fill \in RingFill }

RingInit == EngineInit /\ test \in RingTests

PeekRead ==
    /\ test.kind = "ring"
    /\ test.last.op # "peek_read"
    /\ test' = [test EXCEPT !.last = RingCall("peek_read", 0, rb_peek_read(test.rb).len)]
    /\ UNCHANGED engineVars

PeekWrite ==
    /\ test.kind = "ring"
    /\ test.last.op # "peek_write"
    /\ test' = [test EXCEPT !.last = RingCall("peek_write", 0, rb_peek_write(test.rb).len)]
    /\ UNCHANGED engineVars

\* ws_ringbuf_commit(rb, n) on the bytes the memory holds
Commit ==
    /\ test.kind = "ring"
    /\ \E n \in RingLens :
          LET took == AtHead(test.rb, Min(n, rb_available(test.rb)))
          IN  /\ Len(test.accepted) + Len(took) <= MaxAccepted
              /\ test' = [test EXCEPT !.rb = rb_commit(test.rb, n),
                                      !.accepted = test.accepted \o took,
                                      !.only_copy = FALSE,
                                      !.last = RingCall("commit", n, 0)]
    /\ UNCHANGED engineVars

\* ws_ringbuf_consume(rb, n)
Consume ==
    /\ test.kind = "ring"
    /\ \E n \in RingLens :
          LET took == SubSeq(Stored(test.rb), 1, Min(n, rb_size(test.rb)))
          IN  /\ Len(test.taken) + Len(took) <= MaxAccepted
              /\ test' = [test EXCEPT !.rb = rb_consume(test.rb, n),
                                      !.taken = test.taken \o took,
                                      !.last = RingCall("consume", n, 0)]
    /\ UNCHANGED engineVars

\* ws_ringbuf_write_copy(rb, data, len)
WriteCopy ==
    /\ test.kind = "ring"
    /\ \E data \in RingData :
          LET w == ws_ringbuf_write_copy(test.rb, data)
          IN  /\ Len(test.accepted) + w.ret <= MaxAccepted
              /\ test' = [test EXCEPT !.rb = w.rb,
                                      !.accepted = test.accepted \o SubSeq(data, 1, w.ret),
                                      !.last = RingCall("write_copy", Len(data), w.ret)]
    /\ UNCHANGED engineVars

\* ws_ringbuf_read_copy(rb, out, len)
ReadCopy ==
    /\ test.kind = "ring"
    /\ \E len \in RingLens :
          LET r == ws_ringbuf_read_copy(test.rb, len)
          IN  /\ Len(test.taken) + r.ret <= MaxAccepted
              /\ test' = [test EXCEPT !.rb = r.rb,
                                      !.taken = test.taken \o r.out,
                                      !.last = RingCall("read_copy", len, r.ret)]
    /\ UNCHANGED engineVars

RingNext == PeekRead \/ PeekWrite \/ Commit \/ Consume \/ WriteCopy \/ ReadCopy

RingSpec == RingInit /\ [][RingNext]_vars

\* C34: whatever was called, the size is between 0 and the capacity, size and
\* available add up to the capacity, the buffer says it is empty exactly when
\* its size is 0 and full exactly when its size is the capacity, and the
\* write index is the read index plus the size, modulo the capacity.
C34_RingInvariant ==
    test.kind = "ring"
        => /\ 0 <= rb_size(test.rb) /\ rb_size(test.rb) <= test.rb.capacity
           /\ rb_size(test.rb) + rb_available(test.rb) = test.rb.capacity
           /\ rb_is_empty(test.rb) <=> rb_size(test.rb) = 0
           /\ rb_is_full(test.rb) <=> rb_size(test.rb) = test.rb.capacity
           /\ test.rb.capacity > 0
                  => test.rb.head = (test.rb.tail + rb_size(test.rb)) % test.rb.capacity

\* the bytes the buffer took in and has not given out yet
Unread(t) == SubSeq(t.accepted, Len(t.taken) + 1, Len(t.accepted))

\* the bytes a call added to a history
Added(old, new) == SubSeq(new, Len(old) + 1, Len(new))

\* what C35 says of one call
C35_Step ==
    (test.kind = "ring" /\ test'.only_copy)
        => /\ test'.last.op = "write_copy"
                  => /\ test'.last.ret = Min(test'.last.n, rb_available(test.rb))
                     /\ Len(Added(test.accepted, test'.accepted)) = test'.last.ret
                     /\ Stored(test'.rb)
                            = Unread(test) \o Added(test.accepted, test'.accepted)
           /\ test'.last.op = "read_copy"
                  => /\ test'.last.ret = Min(test'.last.n, rb_size(test.rb))
                     /\ Len(Added(test.taken, test'.taken)) = test'.last.ret
           /\ IsPrefix(test'.taken, test'.accepted)

\* C35: while only write_copy, read_copy and consume are called, write_copy
\* stores and returns min(len, available) bytes and leaves the unread bytes
\* in place ahead of them, read_copy returns min(len, size) bytes, and the
\* bytes given out so far are a prefix of the bytes taken in so far.
C35_Fifo == [][C35_Step]_vars

\* C36: a recv that returns closed, and a connection in state CLOSED, come
\* only with a CLOSE frame parsed from the peer or with the end of the peer's
\* stream; a recv buffer without room for the next read is no reason.
C36_ClosedOnlyByPeer ==
    /\ (op = "recv" /\ ret = "CLOSED")
           => (fr.type = WS_OPCODE_CLOSE \/ (peer_eof /\ sock_in = <<>>))
    /\ (handle = "live" /\ conn.state = "CLOSED")
           => (close_seen \/ (peer_eof /\ sock_in = <<>>))

RecvCall ==
    \E w \in {0, 1}, failing \in BOOLEAN, arrived \in 0..Len(sock_in),
       mask \in MaskKeys, wr \in SendResults, oob \in BOOLEAN :
       Recv(w, failing, arrived, mask, wr, oob)

PollingSpec == Init /\ [][Next]_vars /\ SF_vars(RecvCall) /\ WF_vars(Return)

\* the peer has sent two final TEXT frames "A" and nothing else, one read
\* has brought both, the first has been delivered and released: the recv
\* buffer holds the whole second frame, the parser is between frames, and
\* the socket is empty
SecondFrameBuffered ==
    /\ handle = "live" /\ conn.state = "OPEN"
    /\ peer_bytes = 6 /\ pings_in = 0
    /\ op = "idle"
    /\ conn.pinned_refcnt = 0 /\ conn.pending_consume = 0
    /\ conn.parser.hdr_have = 0 /\ conn.parser.payload_read = 0
    /\ conn.recv_size = 3 /\ conn.recv_buf = <<129, 1, 65>>
    /\ stream.valid /\ Len(stream.due) = 1
    /\ sock_in = <<>>

\* the caller has stopped receiving: it closed the handle or sent a CLOSE
NotReceiving == handle # "live" \/ conn.state # "OPEN"

\* the socket is of no more use: the peer has shut down, or recv() has failed
SocketFailed == peer_eof \/ (op = "recv" /\ ret = "NETWORK")

\* C39: once the second frame of a read is left in the recv buffer, the
\* recv calls that follow return it with OK at some time, whether or not
\* the peer sends anything more (unless the caller stops receiving or the
\* socket fails).
C39_BufferedFrameDelivered ==
    SecondFrameBuffered ~> ((op = "recv" /\ ret = "OK") \/ NotReceiving \/ SocketFailed)

\* C40: when wibesocket_connect has returned a connection, every byte the
\* peer sent behind the blank line of its response is in the recv buffer or
\* still in the socket, in order: the first recv calls parse the first
\* frame the server sent.
C40_NoBytesLostAtHandshake ==
    (op = "connect" /\ handle = "live")
        => BehindBlankLine(hs.io.response)
               = SubSeq(conn.recv_buf, 1, conn.recv_size) \o sock_in

\* what C37 says of one call
C37_Step ==
    (test.kind = "ring" /\ test'.last.op \in {"commit", "consume"} /\ test'.last.n = 0)
        => /\ rb_size(test'.rb) = rb_size(test.rb)
           /\ test'.rb.head = test.rb.head
           /\ test'.rb.tail = test.rb.tail
           /\ Stored(test'.rb) = Stored(test.rb)
           /\ test'.rb.buffer = test.rb.buffer

\* C37: a commit or a consume of zero bytes changes neither the size, nor the
\* write and read indices, nor the bytes stored, whatever the buffer holds.
C37_ZeroLengthNoOp == [][C37_Step]_vars
====
